---- MODULE Spec2Model ----
(***************************************************************************)
(* State-machine model of rung's stack synchronisation engine:             *)
(*   crates/rung-core/src/sync.rs        (plan, execute, continue, abort,   *)
(*                                        undo)                             *)
(*   crates/rung-cli/src/commands/sync.rs (the `rung sync` command)         *)
(*   crates/rung-cli/src/commands/create.rs, submit.rs, merge.rs            *)
(*   crates/rung-git/src/repository.rs   (the VCS driver)                   *)
(*                                                                         *)
(* A commit is the sequence of the patches on its first-parent chain, so   *)
(* two commits are equal exactly when their whole histories are equal      *)
(* (as for git object ids) and the merge base of two commits is their      *)
(* longest common prefix.                                                  *)
(***************************************************************************)
EXTENDS Integers, Sequences, FiniteSets, TLC

\* ---------------------------------------------------------------- bounds
MaxStack == 3
MaxMainCommits == 1
MaxBackups == 1
MaxStale == 1
MaxLateOps == 1
MaxRecreate == 1

\* The branch names the operator uses, and the patches that land on the mainline
NamePool == <<"A", "B", "C", "D">>
MainPatches == <<"m1", "m2", "m3">>
Names == {NamePool[i] : i \in 1..MaxStack}
Mainline == "main"
OtherBase == "develop"
AllBranches == Names \cup {Mainline, OtherBase}

NoCommit == <<>>
RootCommit == <<"m0">>
Detached == ""
NoSync == [backup_id |-> 0, completed |-> <<>>, current |-> "", remaining |-> <<>>]
NoRebase == [branch |-> "", onto |-> NoCommit]
NoCleanup == [branch |-> "", updated |-> {}, pushed |-> {}, remoteDeleted |-> FALSE]
NoResult == [cmd |-> "", kind |-> "None", at_branch |-> "", backup_id |-> 0,
             branches_rebased |-> 0, no_push |-> FALSE, pushed |-> {}]
IdleRun == [cmd |-> "none", dryRun |-> FALSE, plan |-> <<>>,
            idx |-> 0, mem |-> NoSync, backupId |-> 0, original |-> "",
            reparented |-> <<>>, loop |-> <<>>, target |-> NoCommit,
            res |-> NoResult, pre |-> <<>>, prUpdated |-> FALSE,
            base |-> Mainline]

\* The files save_stack touches, as token sequences: a serialized stack is
\* an opening bracket, one token an entry, a closing bracket
StackFile == "stack.json"
NoFile == [exists |-> FALSE, bytes |-> <<>>]
Token(kind, e) == [tok |-> kind, entry |-> e]
Serialize(s) ==
    <<Token("[", <<>>)>> \o [i \in 1..Len(s) |-> Token("entry", s[i])] \o <<Token("]", <<>>)>>
OnDisk(s) == [exists |-> TRUE, bytes |-> Serialize(s)]
NotLoaded == [kind |-> "None", stack |-> <<>>]
NoDisk == [files |-> [p \in {StackFile, "stack.json.tmp"} |->
                         IF p = StackFile THEN OnDisk(<<>>) ELSE NoFile],
           step |-> "idle", written |-> 0, prev |-> <<>>, next |-> <<>>,
           crashed |-> FALSE, loaded |-> NotLoaded]
NoRet == [ok |-> FALSE, value |-> <<>>, reason |-> ""]
NoCall == [fn |-> "", arg |-> <<>>, ret |-> NoRet]

VARIABLES
    stack,      \* stack.json: sequence of [name, parent, pr]
    syncState,  \* sync.json: NoSync when the file is absent
    backups,    \* backups/<id>.json: set of [id, entries]
    nextBackup, \* the next (time-sortable) backup id
    refs,       \* local branch tips
    head,       \* checked-out branch, Detached in the middle of a rebase
    rebasing,   \* the VCS's own in-rebase marker
    origin,     \* the mainline's tip on the remote "origin"
    forge,      \* state of the pull request of each head branch
    cleanup,    \* what the last merge cleanup did on the forge and the remote
    comments,   \* number of comments carrying the stack marker, per pull request
    initialized, \* stack.json exists
    disk,       \* the state directory's files while save_stack writes stack.json
    call,       \* the last call of a function of rung-core and what it returned
    created,    \* how many branch names the operator has used
    lateOps,    \* operator actions since the last Backup was created
    pc,         \* position of the running command
    run,        \* the running command's local variables
    result,     \* what the last command returned
    preTips,    \* history: branch tips when the run of the last Backup started
    touched,    \* history: branches checked out or rebased by the run
    detected,   \* history: branches whose PR the run saw as Merged
    planned,    \* history: branch names of the executed plan
    expected,   \* history: tips an uninterrupted run of the plan yields
    crashed,    \* history: the run was interrupted
    lastRebased, \* history: branch whose rebase succeeded last
    rebasedOk,  \* history: branches whose rebase succeeded in the sync
    pendingBases \* history: <<branch, new parent>> of the PRs Phase 1 re-parented
                \* and update_pr has not been called for

vars == <<stack, syncState, backups, nextBackup, refs, head, rebasing, origin,
          forge, cleanup, comments, initialized, disk, call, created, lateOps, pc, run, result, preTips, touched, detected, planned,
          expected, crashed, lastRebased, rebasedOk, pendingBases>>

aside == <<comments, initialized, disk, call>>
persistent == <<stack, syncState, backups, nextBackup>>
vcs == <<refs, head, rebasing, origin>>
history == <<preTips, touched, detected, planned, expected, crashed, lastRebased,
             rebasedOk, pendingBases>>

is_initialized_Always == TRUE

\* State::is_initialized: stack.json exists
is_initialized == initialized

program == <<persistent, vcs, forge, cleanup, created, lateOps, pc, run, result, history>>

\* ---------------------------------------------------------------- sequences
Range(s) == {s[i] : i \in 1..Len(s)}

RECURSIVE CommonPrefixLen(_, _, _)
CommonPrefixLen(a, b, n) ==
    IF n < Len(a) /\ n < Len(b) /\ a[n + 1] = b[n + 1]
    THEN CommonPrefixLen(a, b, n + 1)
    ELSE n

IsAncestor(a, b) == Len(a) <= Len(b) /\ SubSeq(b, 1, Len(a)) = a

\* ---------------------------------------------------------------- VCS driver
\* Repository::merge_base
merge_base(one, two) == SubSeq(one, 1, CommonPrefixLen(one, two, 0))

\* Repository::branch_exists
branch_exists(r, name) == name \in DOMAIN r /\ r[name] # NoCommit

\* The commits `git rebase <target>` replays: those of the branch that are
\* not reachable from the target, minus the ones whose patch the target
\* already contains.
OwnPatches(tip, target) ==
    SelectSeq(SubSeq(tip, Len(merge_base(tip, target)) + 1, Len(tip)),
              LAMBDA p : p \notin Range(target))

\* Repository::rebase_onto, the tip a successful rebase leaves
Rebased(tip, target) == target \o OwnPatches(tip, target)

\* A replay can stop on a conflict only if it has a commit to replay onto
\* commits the branch does not have.
CanConflict(tip, target) ==
    /\ OwnPatches(tip, target) # <<>>
    /\ Len(target) > Len(merge_base(tip, target))

\* ---------------------------------------------------------------- Stack
Entry_OnMainline(name, parent, pr) == [name |-> name, parent |-> Mainline, pr |-> pr]

Entry(name, parent, pr) == [name |-> name, parent |-> parent, pr |-> pr]

StackNames(s) == {s[i].name : i \in 1..Len(s)}

HasBranch(s, name) == \E i \in 1..Len(s) : s[i].name = name

\* Stack::find_branch: the first entry of that name
find_branch(s, name) == s[CHOOSE i \in 1..Len(s) : s[i].name = name /\ \A j \in 1..(i - 1) : s[j].name # name]

\* Reconciliation of one removed branch: its children take its parent, the
\* branch leaves the stack.
RemoveAndReparent(s, name) ==
    IF ~HasBranch(s, name) THEN s
    ELSE LET p == find_branch(s, name).parent
             re == [i \in 1..Len(s) |->
                      IF s[i].parent = name THEN [s[i] EXCEPT !.parent = p] ELSE s[i]]
         IN  SelectSeq(re, LAMBDA b : b.name # name)

RECURSIVE reconcile_merged(_, _)
reconcile_merged(s, merged) ==
    IF merged = <<>> THEN s
    ELSE reconcile_merged(RemoveAndReparent(s, Head(merged)), Tail(merged))

\* The Reparent records of reconciling `merged` on stack s
RECURSIVE Reparents(_, _)
Reparents(s, merged) ==
    IF merged = <<>> THEN <<>>
    ELSE LET e == Head(merged)
             kids == IF HasBranch(s, e)
                     THEN SelectSeq(s, LAMBDA b : b.parent = e)
                     ELSE <<>>
             p == IF HasBranch(s, e) THEN find_branch(s, e).parent ELSE Mainline
         IN  [i \in 1..Len(kids) |->
                 [name |-> kids[i].name, new_parent |-> p, pr |-> kids[i].pr]]
             \o Reparents(RemoveAndReparent(s, e), Tail(merged))

\* Stale cleanup: every stack branch without a local ref is removed the same way
RECURSIVE remove_stale_branches(_, _)
remove_stale_branches(s, r) ==
    IF \A i \in 1..Len(s) : branch_exists(r, s[i].name) THEN s
    ELSE LET i == CHOOSE k \in 1..Len(s) :
                    /\ ~branch_exists(r, s[k].name)
                    /\ \A j \in 1..(k - 1) : branch_exists(r, s[j].name)
         IN  remove_stale_branches(RemoveAndReparent(s, s[i].name), r)

\* ---------------------------------------------------------------- SyncState
\* SyncState::new
SyncStateNew(id, names) ==
    [backup_id |-> id, completed |-> <<>>,
     current |-> IF names = <<>> THEN "" ELSE Head(names),
     remaining |-> IF names = <<>> THEN <<>> ELSE Tail(names)]

\* SyncState::advance
advance(s) ==
    [s EXCEPT !.completed = IF s.current = "" THEN @ ELSE Append(@, s.current),
              !.current   = IF s.remaining = <<>> THEN "" ELSE Head(s.remaining),
              !.remaining = IF s.remaining = <<>> THEN <<>> ELSE Tail(s.remaining)]

\* ---------------------------------------------------------------- StateStore
\* State::latest_backup: 0 when there is none
latest_backup(bs) ==
    IF bs = {} THEN 0
    ELSE CHOOSE i \in {b.id : b \in bs} : \A j \in {b.id : b \in bs} : j <= i

\* State::load_backup
load_backup(bs, id) == (CHOOSE b \in bs : b.id = id).entries

HasBackup(bs, id) == \E b \in bs : b.id = id

\* ---------------------------------------------------------------- plan
ParentName(b, base) == IF b.parent = "" THEN base ELSE b.parent

\* Mutant of NeedsRebase: a branch counts as synced only when its tip is the
\* parent's tip
NeedsRebase_TipsDiffer(r, b, base) == r[b.name] # r[ParentName(b, base)]

NeedsRebase(r, b, base) ==
    merge_base(r[b.name], r[ParentName(b, base)]) # r[ParentName(b, base)]

\* create_sync_plan fails when a branch or its parent has no local ref
PlanFails(s, r, base) ==
    \E i \in 1..Len(s) :
        \/ ~branch_exists(r, s[i].name)
        \/ ~branch_exists(r, ParentName(s[i], base))

RECURSIVE create_sync_plan_All(_, _, _)
create_sync_plan_All(s, r, base) ==
    IF s = <<>> THEN <<>>
    ELSE <<[branch |-> Head(s).name,
            old_base |-> merge_base(r[Head(s).name], r[ParentName(Head(s), base)]),
            new_base |-> r[ParentName(Head(s), base)]]>>
             \o create_sync_plan_All(Tail(s), r, base)

RECURSIVE create_sync_plan(_, _, _)
create_sync_plan(s, r, base) ==
    IF s = <<>> THEN <<>>
    ELSE LET b == Head(s)
             rest == create_sync_plan(Tail(s), r, base)
         IN  IF NeedsRebase(r, b, base)
             THEN <<[branch |-> b.name,
                     old_base |-> merge_base(r[b.name], r[ParentName(b, base)]),
                     new_base |-> r[ParentName(b, base)]]>> \o rest
             ELSE rest

PlanNames(plan) == [i \in 1..Len(plan) |-> plan[i].branch]

\* The stacks and the branch tips create_sync_plan is asked about: branches
\* A and B with a null parent, the base or A as parent, and tips on either
\* mainline commit, with and without commits of their own, or no ref at all
PlanStacks ==
    {<<>>}
    \cup {<<Entry(n, pa, 0)>> : n \in {"A", "B"}, pa \in {"", Mainline}}
    \cup {<<Entry("A", pa, 0), Entry("B", pb, 0)>> :
              pa \in {"", Mainline}, pb \in {"", Mainline, "A"}}
PlanTips == {NoCommit, <<"m0">>, <<"m0", "m1">>, <<"m0", "A">>, <<"m0", "m1", "A">>,
             <<"m0", "A", "B">>, <<"m0", "m1", "A", "B">>}
PlanRefs == {r \in [AllBranches -> PlanTips] :
                \A b \in AllBranches \ {"A", "B", Mainline} : r[b] = NoCommit}

\* A call of create_sync_plan(repo, stack, base_branch) on the drawn stack
\* and refs
PlanCall ==
    /\ call.fn = ""
    /\ LET s == call.arg.stack
           r == call.arg.refs
       IN  call' = [call EXCEPT
                       !.fn = "create_sync_plan",
                       !.ret = IF PlanFails(s, r, Mainline)
                               THEN [ok |-> FALSE, value |-> <<>>, reason |-> "BranchNotFound"]
                               ELSE [ok |-> TRUE, value |-> create_sync_plan(s, r, Mainline),
                                     reason |-> ""]]
    /\ UNCHANGED <<program, comments, initialized, disk>>

\* The tips an uninterrupted, conflict-free execution of the plan leaves
RECURSIVE ExecAll(_, _)
ExecAll(plan, r) ==
    IF plan = <<>> THEN r
    ELSE ExecAll(Tail(plan),
                 [r EXCEPT ![Head(plan).branch] = Rebased(@, Head(plan).new_base)])

\* ---------------------------------------------------------------- forge
NoPr == "none"

\* The PR number the forge assigns to the PR of a head branch
PrNumber(name) == CHOOSE i \in 1..Len(NamePool) : NamePool[i] = name

\* What a command returns
Outcome(cmd, kind) == [NoResult EXCEPT !.cmd = cmd, !.kind = kind]

Paused(cmd, branch, id) ==
    [NoResult EXCEPT !.cmd = cmd, !.kind = "Paused", !.at_branch = branch, !.backup_id = id]

Complete(cmd, n, id) ==
    [NoResult EXCEPT !.cmd = cmd, !.kind = "Complete", !.backup_id = id,
                     !.branches_rebased = n]

\* ---------------------------------------------------------------- Init
InitFrom(s, r) ==
    /\ stack = s
    /\ comments = [b \in Names |-> 0]
    /\ syncState = NoSync
    /\ backups = {}
    /\ nextBackup = 1
    /\ refs = r
    /\ head = Mainline
    /\ rebasing = NoRebase
    /\ origin = RootCommit
    /\ forge = [b \in Names |-> NoPr]
    /\ cleanup = NoCleanup
    /\ disk = NoDisk
    /\ created = 0
    /\ lateOps = 0
    /\ pc = "idle"
    /\ run = IdleRun
    /\ result = NoResult
    /\ preTips = r
    /\ touched = {}
    /\ detected = {}
    /\ planned = <<>>
    /\ expected = r
    /\ crashed = FALSE
    /\ lastRebased = ""
    /\ rebasedOk = {}
    /\ pendingBases = {}

\* A fresh repository: the mainline with its root commit, an empty stack
InitProgram ==
    InitFrom(<<>>, [b \in AllBranches |-> IF b = Mainline THEN RootCommit ELSE NoCommit])

\* After `rung init`, no function called yet
Init == InitProgram /\ initialized = TRUE /\ call = NoCall

\* ---------------------------------------------------------------- environment
\* The operator's actions between two commands are explored freely until the
\* first Backup exists, and MaxLateOps at a time after that
MayAct == pc = "idle" /\ (nextBackup = 1 \/ lateOps < MaxLateOps)

Acted == lateOps' = IF nextBackup = 1 THEN 0 ELSE lateOps + 1

\* The operator commits on the checked-out stack branch (one patch a branch)
GitCommit ==
    /\ MayAct /\ Acted
    /\ UNCHANGED created
    /\ rebasing = NoRebase
    /\ head \in Names
    /\ head \notin Range(refs[head])
    /\ refs' = [refs EXCEPT ![head] = Append(@, head)]
    /\ result' = NoResult
    /\ UNCHANGED <<persistent, head, rebasing, origin, forge, cleanup, aside, pc, run, history>>

\* The operator checks out another local branch
GitCheckout(b) ==
    /\ MayAct /\ Acted
    /\ UNCHANGED created
    /\ rebasing = NoRebase
    /\ branch_exists(refs, b) /\ b # head
    /\ head' = b
    /\ result' = NoResult
    /\ UNCHANGED <<persistent, refs, rebasing, origin, forge, cleanup, aside, pc, run, history>>

\* The operator deletes a local branch that is not checked out
GitDeleteBranch(b) ==
    /\ MayAct /\ Acted
    /\ UNCHANGED created
    /\ rebasing = NoRebase
    /\ b \in Names /\ branch_exists(refs, b) /\ b # head
    /\ Cardinality({n \in StackNames(stack) : ~branch_exists(refs, n)}) < MaxStale
    /\ refs' = [refs EXCEPT ![b] = NoCommit]
    /\ result' = NoResult
    /\ UNCHANGED <<persistent, head, rebasing, origin, forge, cleanup, aside, pc, run, history>>

\* Somebody else pushes a commit to the mainline on origin
OriginMainAdvance ==
    /\ MayAct /\ Acted
    /\ UNCHANGED created
    /\ \E i \in 1..MaxMainCommits :
        /\ i <= Len(MainPatches)
        /\ MainPatches[i] \notin Range(origin)
        /\ \A j \in 1..(i - 1) : MainPatches[j] \in Range(origin)
        /\ origin' = Append(origin, MainPatches[i])
    /\ result' = NoResult
    /\ UNCHANGED <<persistent, refs, head, rebasing, forge, cleanup, aside, pc, run, history>>

\* A PR is merged on the forge
ForgeMerge(b) ==
    /\ MayAct /\ Acted
    /\ UNCHANGED created
    /\ forge[b] = "open"
    /\ forge' = [forge EXCEPT ![b] = "merged"]
    /\ result' = NoResult
    /\ UNCHANGED <<persistent, vcs, cleanup, aside, pc, run, history>>

\* ---------------------------------------------------------------- branch names
\* A name is a sequence of characters; TAB, DEL and BACKQUOTE stand for the
\* characters 0x09, 0x7f and 0x60
ControlChars == {"TAB", "DEL"}
GitForbidden == {" ", "~", "^", ":", "?", "*", "["}
ShellMeta == {"$", ";", "|", "&", ">", "<", "BACKQUOTE", "\\", "\"", "'", "(", ")", "{", "}", "!"}
PlainChars == {"a", "l", "o", "c", "k", "L", "-", ".", "/", "@"}
Chars == ControlChars \cup GitForbidden \cup ShellMeta \cup PlainChars

starts_with(name, c) == Len(name) >= 1 /\ name[1] = c
ends_with(name, c) == Len(name) >= 1 /\ name[Len(name)] = c

EndsWithLock_Never(name) == FALSE

\* name.ends_with(".lock")
EndsWithLock(name) ==
    /\ Len(name) >= 5
    /\ SubSeq(name, Len(name) - 4, Len(name)) = <<".", "l", "o", "c", "k">>

\* name.chars().nth(i + 1) == Some(c), with i counted from 1
NextIs(name, i, c) == i + 1 <= Len(name) /\ name[i + 1] = c

\* The loop of validate_branch_name from character i on: the reason of the
\* first check that fails, "" when none does
RECURSIVE CheckChars(_, _)
CheckChars(name, i) ==
    IF i > Len(name) THEN ""
    ELSE LET c == name[i]
         IN  IF c \in ControlChars THEN "control"
             ELSE IF c \in GitForbidden THEN "forbidden"
             ELSE IF c \in ShellMeta THEN "shell metacharacter"
             ELSE IF c = "." /\ NextIs(name, i, ".") THEN ".."
             ELSE IF c = "/" /\ NextIs(name, i, "/") THEN "//"
             ELSE IF c = "@" /\ NextIs(name, i, "{") THEN "@{"
             ELSE IF c = "/" /\ NextIs(name, i, ".") THEN "/."
             ELSE CheckChars(name, i + 1)

\* validate_branch_name: the reason of the rejection, "" for a valid name
validate_branch_name(name) ==
    IF name = <<>> THEN "empty"
    ELSE IF name = <<"@">> THEN "@"
    ELSE IF starts_with(name, ".") THEN "starts with ."
    ELSE IF ends_with(name, ".") THEN "ends with ."
    ELSE IF EndsWithLock(name) THEN ".lock"
    ELSE IF starts_with(name, "/") \/ ends_with(name, "/") THEN "starts or ends with /"
    ELSE CheckChars(name, 1)

BranchName_new_Unchecked(name) == [ok |-> TRUE, value |-> name, reason |-> ""]

\* BranchName::new: the validated name, or Error::InvalidBranchName
BranchName_new(name) ==
    LET reason == validate_branch_name(name)
    IN  IF reason = ""
        THEN [ok |-> TRUE, value |-> name, reason |-> ""]
        ELSE [ok |-> FALSE, value |-> <<>>, reason |-> reason]

\* The candidate names: every short string over all characters, every longer
\* string over the characters the pattern rules name, and names around ".lock"
MaxShort == 2
MaxLong == 4
CoreChars == {"a", ".", "/", "@", "{"}
LockTails == {<<".", "l", "o", "c", "k">>, <<".", "L", "o", "c", "k">>,
              <<".", "l", "o", "c">>, <<"l", "o", "c", "k">>,
              <<".", "l", "o", "c", "k", "a">>, <<".", "l", "o", "c", "k", "/", "a">>}
NameInputs ==
    UNION {[1..n -> Chars] : n \in 0..MaxShort}
    \cup UNION {[1..n -> CoreChars] : n \in 0..MaxLong}
    \cup {p \o s : p \in UNION {[1..n -> {"a", "/", "."}] : n \in 0..2}, s \in LockTails}

\* A call of BranchName::new on the drawn name
BranchNameNew ==
    /\ call.fn = ""
    /\ call' = [call EXCEPT !.fn = "BranchName::new", !.ret = BranchName_new(call.arg)]
    /\ UNCHANGED <<program, comments, initialized, disk>>

\* serde_json's text of a string: the characters between quotes, with the
\* quote, the backslash and TAB escaped
RECURSIVE JsonEscape(_)
JsonEscape(s) ==
    IF s = <<>> THEN <<>>
    ELSE (IF Head(s) \in {"\"", "\\"} THEN <<"\\", Head(s)>>
          ELSE IF Head(s) = "TAB" THEN <<"\\", "t">>
          ELSE <<Head(s)>>) \o JsonEscape(Tail(s))

\* serde_json's reading of the inside of a JSON string: fails on a bare
\* quote, a bare control character or an unknown escape
RECURSIVE JsonUnescape(_)
JsonUnescape(s) ==
    IF s = <<>> THEN [ok |-> TRUE, value |-> <<>>]
    ELSE IF Head(s) \in {"\"", "TAB"} THEN [ok |-> FALSE, value |-> <<>>]
    ELSE IF Head(s) = "\\"
    THEN IF Len(s) >= 2 /\ s[2] \in {"\"", "\\", "/", "t"}
         THEN LET r == JsonUnescape(SubSeq(s, 3, Len(s)))
              IN  [ok |-> r.ok,
                   value |-> IF r.ok THEN <<IF s[2] = "t" THEN "TAB" ELSE s[2]>> \o r.value
                             ELSE <<>>]
         ELSE [ok |-> FALSE, value |-> <<>>]
    ELSE LET r == JsonUnescape(Tail(s))
         IN  [ok |-> r.ok, value |-> IF r.ok THEN <<Head(s)>> \o r.value ELSE <<>>]

\* Serialize for BranchName: serializer.serialize_str(&self.0)
BranchName_serialize(name) == <<"\"">> \o JsonEscape(name) \o <<"\"">>

BranchName_deserialize_Unchecked(doc) ==
    [ok |-> TRUE, value |-> JsonUnescape(SubSeq(doc, 2, Len(doc) - 1)).value, reason |-> ""]

\* Deserialize for BranchName: String::deserialize, then Self::new
BranchName_deserialize(doc) ==
    LET s == IF Len(doc) >= 2 /\ doc[1] = "\"" /\ doc[Len(doc)] = "\""
             THEN JsonUnescape(SubSeq(doc, 2, Len(doc) - 1))
             ELSE [ok |-> FALSE, value |-> <<>>]
    IN  IF s.ok THEN BranchName_new(s.value)
        ELSE [ok |-> FALSE, value |-> <<>>, reason |-> "not a string"]

\* serde_json::from_str::<BranchName> on the JSON text of the drawn string
BranchNameDeserialize ==
    /\ call.fn = ""
    /\ call' = [call EXCEPT !.fn = "deserialize",
                            !.ret = BranchName_deserialize(BranchName_serialize(call.arg))]
    /\ UNCHANGED <<program, comments, initialized, disk>>

\* The drawn string is a valid name: serialize the BranchName, deserialize
\* the text
BranchNameRoundTrip ==
    /\ call.fn = ""
    /\ BranchName_new(call.arg).ok
    /\ call' = [call EXCEPT !.fn = "round trip",
                            !.ret = BranchName_deserialize(
                                        BranchName_serialize(BranchName_new(call.arg).value))]
    /\ UNCHANGED <<program, comments, initialized, disk>>

\* load_stack on a stack.json whose one entry has the drawn string as its
\* branch: the entry's name goes through Deserialize for BranchName
LoadNamed ==
    /\ call.fn = ""
    /\ LET name == BranchName_deserialize(BranchName_serialize(call.arg))
       IN  disk' = [disk EXCEPT !.loaded =
                        IF name.ok
                        THEN [kind |-> "Ok", stack |-> <<Entry(name.value, Mainline, 0)>>]
                        ELSE [kind |-> "Error", stack |-> <<>>]]
    /\ call' = [call EXCEPT !.fn = "load_stack"]
    /\ UNCHANGED <<program, comments, initialized>>

\* ---------------------------------------------------------------- slugify
\* MAX_BRANCH_NAME_LENGTH, scaled down from 50, and the longest text
MAX_BRANCH_NAME_LENGTH == 4
MaxText == 6

\* The texts: lower and upper case letters, the hyphen, the space and the
\* line feed (NL)
SlugInputs == UNION {[1..n -> {"a", "L", "-", " ", "NL"}] : n \in 0..MaxText}

\* char::to_lowercase on the letters of the texts
to_lowercase(c) == IF c = "L" THEN "l" ELSE c

\* split('-'), filter(!is_empty), join("-"): the words of s with one hyphen
\* between two of them; `started` says that a word came before
RECURSIVE JoinWords(_, _)
JoinWords(s, started) ==
    IF s = <<>> THEN <<>>
    ELSE IF Head(s) = "-" THEN JoinWords(Tail(s), started)
    ELSE LET hy == {i \in 1..Len(s) : s[i] = "-"}
             n == IF hy = {} THEN Len(s)
                  ELSE (CHOOSE i \in hy : \A j \in hy : i <= j) - 1
         IN  (IF started THEN <<"-">> ELSE <<>>) \o SubSeq(s, 1, n)
                 \o JoinWords(SubSeq(s, n + 1, Len(s)), TRUE)

\* slugify before the truncation: the first line, in lower case, every
\* character that is not alphanumeric turned into a hyphen, the words joined
Slug(text) ==
    LET nl == {i \in 1..Len(text) : text[i] = "NL"}
        first_line == IF nl = {} THEN text
                      ELSE SubSeq(text, 1, (CHOOSE i \in nl : \A j \in nl : i <= j) - 1)
        mapped == [i \in 1..Len(first_line) |->
                      IF to_lowercase(first_line[i]) \in {"a", "l"}
                      THEN to_lowercase(first_line[i]) ELSE "-"]
    IN  JoinWords(mapped, FALSE)

Truncate_AtLimit(slug) ==
    IF Len(slug) <= MAX_BRANCH_NAME_LENGTH THEN slug
    ELSE SubSeq(slug, 1, MAX_BRANCH_NAME_LENGTH)

\* slugify's truncation: a slug within the limit as it is; else the part
\* before the last hyphen among the first MAX_BRANCH_NAME_LENGTH characters,
\* and the first MAX_BRANCH_NAME_LENGTH characters when there is no hyphen
Truncate(slug) ==
    IF Len(slug) <= MAX_BRANCH_NAME_LENGTH THEN slug
    ELSE LET hy == {i \in 1..MAX_BRANCH_NAME_LENGTH : slug[i] = "-"}
         IN  IF hy = {} THEN SubSeq(slug, 1, MAX_BRANCH_NAME_LENGTH)
             ELSE SubSeq(slug, 1, (CHOOSE i \in hy : \A j \in hy : j <= i) - 1)

slugify(text) == Truncate(Slug(text))

\* slugify on the drawn text; the reason field notes a truncation
Slugify ==
    /\ call.fn = ""
    /\ call' = [call EXCEPT !.fn = "slugify",
                            !.ret = [ok |-> TRUE, value |-> slugify(call.arg),
                                     reason |-> IF Len(Slug(call.arg)) > MAX_BRANCH_NAME_LENGTH
                                                THEN "truncated" ELSE ""]]
    /\ UNCHANGED <<program, comments, initialized, disk>>

\* slugify on the slug the first call returned
SlugifyAgain ==
    /\ call.fn = "slugify"
    /\ call' = [call EXCEPT !.fn = "slugify(slugify)",
                            !.arg = call.ret.value,
                            !.ret.value = slugify(call.ret.value)]
    /\ UNCHANGED <<program, comments, initialized, disk>>

\* ---------------------------------------------------------------- state store
\* The stacks the store is asked to save
MaxSaved == 2
SavedEntries == {Entry("A", Mainline, 0), Entry("B", "A", 0)}
SavedStacks == UNION {[1..n -> SavedEntries] : n \in 0..MaxSaved}

\* load_stack's reading of a file: a stack when the file holds a whole
\* serialization, an error when the file is missing, empty or cut short
Parse(f) ==
    LET b == f.bytes
        n == Len(b)
    IN  IF /\ f.exists
           /\ n >= 2
           /\ b[1].tok = "["
           /\ b[n].tok = "]"
           /\ \A i \in 2..(n - 1) : b[i].tok = "entry"
        THEN [kind |-> "Ok", stack |-> [i \in 1..(n - 2) |-> b[i + 1].entry]]
        ELSE [kind |-> "Error", stack |-> <<>>]

\* rename(2): `to` takes the content of `from`, atomically
Rename(files, from, to) ==
    [p \in DOMAIN files |-> IF p = to THEN files[from]
                              ELSE IF p = from THEN NoFile ELSE files[p]]

TempOf_InPlace(path) == path

\* The temporary file save_stack writes before it renames it over the target
TempOf(path) == "stack.json.tmp"

\* save_stack(s): create (or truncate) the temporary file
SaveBegin(s) ==
    /\ disk.step = "idle"
    /\ s \in SavedStacks
    /\ disk' = [disk EXCEPT !.files[TempOf(StackFile)] = [exists |-> TRUE, bytes |-> <<>>],
                            !.step = "write",
                            !.written = 0,
                            !.prev = IF Parse(disk.files[StackFile]).kind = "Ok"
                                     THEN Parse(disk.files[StackFile]).stack
                                     ELSE disk.prev,
                            !.next = s,
                            !.crashed = FALSE,
                            !.loaded = NotLoaded]
    /\ UNCHANGED <<program, comments, initialized, call>>

\* save_stack: one more piece of the serialization reaches the temporary file
SaveWrite ==
    /\ disk.step = "write"
    /\ disk.written < Len(Serialize(disk.next))
    /\ LET tmp == TempOf(StackFile)
       IN  disk' = [disk EXCEPT !.files[tmp].bytes =
                                    Append(disk.files[tmp].bytes,
                                           Serialize(disk.next)[disk.written + 1]),
                                !.written = disk.written + 1]
    /\ UNCHANGED <<program, comments, initialized, call>>

\* save_stack: the whole serialization is written; rename over stack.json
SaveRename ==
    /\ disk.step = "write"
    /\ disk.written = Len(Serialize(disk.next))
    /\ disk' = [disk EXCEPT !.files = Rename(disk.files, TempOf(StackFile), StackFile),
                            !.step = "idle"]
    /\ UNCHANGED <<program, comments, initialized, call>>

\* The process stops in the middle of save_stack; what it wrote stays
SaveCrash ==
    /\ disk.step = "write"
    /\ disk' = [disk EXCEPT !.step = "idle", !.crashed = TRUE]
    /\ UNCHANGED <<program, comments, initialized, call>>

\* load_stack by the next process
Load ==
    /\ disk.step = "idle"
    /\ disk' = [disk EXCEPT !.loaded = Parse(disk.files[StackFile])]
    /\ UNCHANGED <<program, comments, initialized, call>>

\* ---------------------------------------------------------------- create
\* What the operator types for the branch of pool name n: the name itself,
\* or one of the spellings validation rejects
Misspelled(n) == {<<".", ".", "/", n>>, <<n, ".", "l", "o", "c", "k">>,
                  <<n, " ", n>>, <<n, ";">>, <<"/", n>>}
Typed == UNION {{<<n>>} \cup Misspelled(n) : n \in Names}
NameOf(typed) == CHOOSE n \in Names : n \in Range(typed)

\* Repository::is_clean when create runs, and whether --message was given
WorkingCopies == {"clean", "dirty", "dirty, --message"}

\* commands/create.rs run on the typed name: validation comes first, then the
\* initialization check. The operator takes the next name of the pool each
\* time, or (refused) the name of a local branch. With --message and a working copy
\* that is not clean, the changes are committed on the new branch.
Create(typed, wc) ==
    /\ MayAct /\ Acted
    /\ typed \in Typed
    /\ wc \in WorkingCopies
    /\ PrNumber(NameOf(typed)) <= created + 1
    /\ IF ~BranchName_new(typed).ok
       THEN /\ result' = Outcome("create", "InvalidBranchName")
            /\ UNCHANGED <<stack, refs, head, created>>
       ELSE IF ~is_initialized
       THEN /\ result' = Outcome("create", "NotInitialized")
            /\ UNCHANGED <<stack, refs, head, created>>
       ELSE LET name == NameOf(typed)
            IN  /\ \/ /\ head # Detached
                      /\ PrNumber(name) = created + 1
                      /\ ~branch_exists(refs, name)
                      /\ refs' = [refs EXCEPT ![name] =
                                    IF wc = "dirty, --message"
                                    THEN Append(refs[head], name)
                                    ELSE refs[head]]
                      /\ stack' = Append(stack, Entry(name, head, 0))
                      /\ head' = name
                      /\ created' = created + 1
                   \/ /\ (head = Detached \/ branch_exists(refs, name))
                      /\ UNCHANGED <<stack, refs, head, created>>
                /\ result' = NoResult
    /\ UNCHANGED <<syncState, backups, nextBackup, rebasing, origin, forge, cleanup, aside,
                   pc, run, history>>

\* commands/create.rs run with a name that was used before and whose local
\* branch has been deleted since: only Repository::branch_exists is asked, so
\* the name is taken again, also when stack.json still has an entry for it
Recreate(name) ==
    /\ MayAct /\ Acted
    /\ name \in Names
    /\ PrNumber(name) <= created
    /\ head # Detached
    /\ ~branch_exists(refs, name)
    /\ Len(stack) - Cardinality(StackNames(stack)) < MaxRecreate
    /\ refs' = [refs EXCEPT ![name] = refs[head]]
    /\ stack' = Append(stack, Entry(name, head, 0))
    /\ head' = name
    /\ result' = NoResult
    /\ UNCHANGED <<syncState, backups, nextBackup, rebasing, origin, forge, cleanup, aside, created,
                   pc, run, history>>

\* ---------------------------------------------------------------- submit
\* process_branches on one branch: push it, then update or create its PR;
\* update_pr fails on a PR that is no longer open
SubmitOk(b) ==
    /\ branch_exists(refs, b.name)
    /\ (b.pr # 0 => forge[b.name] = "open")

update_stack_comment_Create(n) == n + 1

\* update_stack_comments on one pull request with n marker comments: the
\* first comment with the marker is updated; one is created when there is none
update_stack_comment(n) == IF n > 0 THEN n ELSE n + 1

\* commands/submit.rs run: refused without stack.json; the first k branches
\* are processed; the stack is saved only when all of them were, and then
\* update_stack_comments goes through the stack and gets as far as the
\* c-th pull request
SubmitRun(k, c) ==
    /\ MayAct /\ Acted
    /\ UNCHANGED created
    /\ IF ~is_initialized
       THEN /\ k = 0 /\ c = 0
            /\ result' = Outcome("submit", "NotInitialized")
            /\ UNCHANGED <<stack, forge, comments>>
       ELSE /\ rebasing = NoRebase
            /\ stack # <<>>
            /\ k \in 0..Len(stack)
            /\ c \in 0..Len(stack)
            /\ k < Len(stack) => c = 0
            /\ \A i \in 1..k : SubmitOk(stack[i])
            /\ forge' = [b \in Names |-> IF b \in {stack[i].name : i \in 1..k}
                                         THEN "open" ELSE forge[b]]
            /\ stack' = IF k = Len(stack)
                        THEN [i \in 1..Len(stack) |->
                                [stack[i] EXCEPT !.pr = PrNumber(stack[i].name)]]
                        ELSE stack
            /\ comments' = [b \in Names |-> IF b \in {stack[i].name : i \in 1..c}
                                            THEN update_stack_comment(comments[b])
                                            ELSE comments[b]]
            /\ result' = NoResult
    /\ UNCHANGED <<syncState, backups, nextBackup, refs, head, rebasing, origin,
                   cleanup, initialized, disk, call, pc, run, history>>

\* A submit run whose update_stack_comments reaches the end of the stack
Submit(k) == SubmitRun(k, IF is_initialized /\ k = Len(stack) THEN Len(stack) ELSE 0)

\* ---------------------------------------------------------------- merge
\* The names of the entries whose parent is `name`, in stack order
ChildrenOf(s, name) ==
    LET kids == SelectSeq(s, LAMBDA b : b.parent = name)
    IN  [i \in 1..Len(kids) |-> kids[i].name]

\* The names at most k parent links below the names of N
RECURSIVE Below(_, _, _)
Below(s, N, k) ==
    IF k = 0 THEN N
    ELSE Below(s, N \cup {s[i].name : i \in {j \in 1..Len(s) : s[j].parent \in N}}, k - 1)

\* collect_descendants does not return when a parent cycle lies below the root
Loops(s, root) ==
    \E n \in Below(s, {root}, Len(s)) :
        n \in Below(s, Range(ChildrenOf(s, n)), Len(s))

\* Mutant of collect_descendants: the children of a branch are listed after
\* their own descendants
RECURSIVE collect_descendants_ChildrenFirst(_, _)
collect_descendants_ChildrenFirst(s, queue) ==
    IF queue = <<>> THEN <<>>
    ELSE LET kids == ChildrenOf(s, queue[Len(queue)])
         IN  collect_descendants_ChildrenFirst(s, SubSeq(queue, 1, Len(queue) - 1) \o kids)
                 \o kids

\* collect_descendants: the work list is a stack (Vec::pop), each popped name
\* is followed by its children in stack order
RECURSIVE collect_descendants(_, _)
collect_descendants(s, queue) ==
    IF queue = <<>> THEN <<>>
    ELSE LET kids == ChildrenOf(s, queue[Len(queue)])
         IN  kids \o collect_descendants(s, SubSeq(queue, 1, Len(queue) - 1) \o kids)

\* Repository::rebase_onto_from, the tip a successful transplant leaves: the
\* commits after old_base, replayed onto new_base
rebase_onto_from(tip, new_base, old_base) ==
    new_base \o SelectSeq(SubSeq(tip, Len(merge_base(tip, old_base)) + 1, Len(tip)),
                          LAMBDA c : c \notin Range(new_base))

\* The commit a descendant x of the merged branch cur is transplanted onto:
\* the fetched remote tip of cur's parent for a direct child, the local tip
\* of its own parent otherwise
NewBaseCommit(r, s, cur, x, landed) ==
    LET stack_parent == ParentName(find_branch(s, x), Mainline)
        new_base == IF stack_parent = cur THEN ParentName(find_branch(s, cur), Mainline)
                    ELSE stack_parent
    IN  IF new_base = ParentName(find_branch(s, cur), Mainline) THEN landed
        ELSE r[new_base]

\* The tips after the first n descendants of D were transplanted; `old` are
\* the tips captured before the merge
RECURSIVE RebaseDescendants(_, _, _, _, _, _, _)
RebaseDescendants(r, D, n, old, s, cur, landed) ==
    IF n = 0 THEN r
    ELSE LET x == Head(D)
             onto == NewBaseCommit(r, s, cur, x, landed)
             from == old[ParentName(find_branch(s, x), Mainline)]
         IN  RebaseDescendants([r EXCEPT ![x] = rebase_onto_from(@, onto, from)],
                               Tail(D), n - 1, old, s, cur, landed)

\* The base merge.rs gives the PR of descendant x of the merged branch cur
NewBaseName(s, cur, x) ==
    LET stack_parent == ParentName(find_branch(s, x), Mainline)
    IN  IF stack_parent = cur THEN ParentName(find_branch(s, cur), Mainline)
        ELSE stack_parent

\* Mutant of CleanupAfter: delete_ref is issued before the descendant loop
CleanupAfter_DeleteFirst(s, cur, D, u, p, del) ==
    [branch |-> cur,
     updated |-> {<<D[i], NewBaseName(s, cur, D[i])>> :
                     i \in {j \in 1..u : find_branch(s, D[j]).pr # 0}},
     pushed |-> {D[i] : i \in 1..p},
     remoteDeleted |-> TRUE]

\* What a merge cleanup has done on the forge and the remote when update_pr
\* was called for the first u descendants (those that have a PR), the first
\* p descendants were pushed and delete_ref was (del) or was not issued
CleanupAfter(s, cur, D, u, p, del) ==
    [branch |-> cur,
     updated |-> {<<D[i], NewBaseName(s, cur, D[i])>> :
                     i \in {j \in 1..u : find_branch(s, D[j]).pr # 0}},
     pushed |-> {D[i] : i \in 1..p},
     remoteDeleted |-> del]

\* Mutant of MergedStack: the merged branch leaves the stack but its children
\* keep naming it as their parent
MergedStack_NoReparent(s, cur) == SelectSeq(s, LAMBDA b : b.name # cur)

\* Mutant of MergedStack: the stack is not saved after merge_pr
MergedStack_Unsaved(s, cur) == s

\* The stack merge.rs saves right after merge_pr: the children of the merged
\* branch take its parent, the branch leaves the stack
MergedStack(s, cur) ==
    LET parent_branch == ParentName(find_branch(s, cur), Mainline)
        re == [i \in 1..Len(s) |->
                 IF s[i].parent = cur THEN [s[i] EXCEPT !.parent = parent_branch]
                 ELSE s[i]]
    IN  SelectSeq(re, LAMBDA b : b.name # cur)

\* Mutant of merge_pr_ok: an error of merge_pr does not end the command
merge_pr_ok_Ignored(f, cur) == TRUE

\* GitHubClient::merge_pr succeeds on an open pull request
merge_pr_ok(f, cur) == f[cur] = "open"

\* What merge.rs checks before it calls merge_pr: a branch is checked out, it
\* is in the stack, it has a PR, and every descendant has a local tip
MergeValid(s, r, cur) ==
    /\ cur # Detached
    /\ HasBranch(s, cur)
    /\ find_branch(s, cur).pr # 0
    /\ \A x \in Range(collect_descendants(s, <<cur>>)) : branch_exists(r, x)

\* commands/merge.rs run on the checked-out branch: without stack.json it is
\* refused; an error before merge_pr,
\* or from merge_pr on a PR that is not open, changes nothing. The forge lands the
\* branch's commits on its parent; the run then ends in one of: every
\* descendant transplanted and the branch deleted (done), a fatal error after
\* n descendants (a failed fetch; a failed update_pr or checkout of descendant
\* n + 1; a failed push of descendant n; after the loop, a failed checkout of
\* the parent), or a conflict in descendant n + 1, which leaves the VCS in the
\* middle of that rebase. delete_ref is skipped with --no-delete and its
\* failure is a warning.
Merge(n, how) ==
    /\ MayAct /\ Acted
    /\ ~Loops(stack, head)
    /\ LET cur == head
           parent_branch == ParentName(find_branch(stack, cur), Mainline)
           D == collect_descendants(stack, <<cur>>)
           base == IF parent_branch = Mainline THEN origin ELSE refs[parent_branch]
           landed == base \o OwnPatches(refs[cur], base)
           fetched == [refs EXCEPT ![parent_branch] = landed]
       IN  IF \/ ~is_initialized
              \/ ~MergeValid(stack, refs, cur)
              \/ ~merge_pr_ok(forge, cur)
           THEN /\ n = 0 /\ how = "error"
                /\ UNCHANGED <<stack, refs, head, rebasing, origin, forge, cleanup>>
           ELSE /\ forge' = [forge EXCEPT ![cur] = "merged"]
                /\ origin' = IF parent_branch = Mainline THEN landed ELSE origin
                /\ stack' = MergedStack(stack, cur)
                /\ IF ~IsAncestor(refs[parent_branch], landed)
                   THEN /\ n = 0 /\ how = "error"
                        /\ cleanup' = CleanupAfter(stack, cur, D, 0, 0, FALSE)
                        /\ UNCHANGED <<refs, head, rebasing>>
                   ELSE /\ n \in 0..Len(D)
                        /\ \/ /\ how = "done" /\ n = Len(D)
                              /\ refs' = [RebaseDescendants(fetched, D, n, refs, stack, cur, landed)
                                            EXCEPT ![cur] = NoCommit]
                              /\ head' = parent_branch
                              /\ \E del \in BOOLEAN :
                                    cleanup' = CleanupAfter(stack, cur, D, n, n, del)
                              /\ UNCHANGED rebasing
                           \/ /\ how = "error"
                              /\ refs' = RebaseDescendants(fetched, D, n, refs, stack, cur, landed)
                              /\ head' = IF n = 0 THEN cur ELSE D[n]
                              /\ \/ /\ n < Len(D)
                                    /\ find_branch(stack, D[n + 1]).pr # 0
                                    /\ cleanup' = CleanupAfter(stack, cur, D, n, n, FALSE)
                                 \/ /\ n < Len(D)
                                    /\ cleanup' = CleanupAfter(stack, cur, D, n + 1, n, FALSE)
                                 \/ /\ n >= 1
                                    /\ cleanup' = CleanupAfter(stack, cur, D, n, n - 1, FALSE)
                                 \/ /\ n = Len(D)
                                    /\ \E del \in BOOLEAN :
                                          cleanup' = CleanupAfter(stack, cur, D, n, n, del)
                              /\ UNCHANGED rebasing
                           \/ /\ how = "conflict" /\ n < Len(D)
                              /\ LET r == RebaseDescendants(fetched, D, n, refs, stack, cur, landed)
                                     x == D[n + 1]
                                     onto == NewBaseCommit(r, stack, cur, x, landed)
                                 IN  /\ CanConflict(r[x], onto)
                                     /\ refs' = r
                                     /\ rebasing' = [branch |-> x, onto |-> onto]
                                     /\ head' = Detached
                                     /\ cleanup' = CleanupAfter(stack, cur, D, n + 1, n, FALSE)
    /\ result' = IF is_initialized THEN NoResult ELSE Outcome("merge", "NotInitialized")
    /\ UNCHANGED <<syncState, backups, nextBackup, created, pc, run, history, aside>>

\* ---------------------------------------------------------------- sync
\* commands/sync.rs run, up to the base fetch: a plain sync is refused while
\* sync.json exists and when require_clean fails. `clean` is the answer of
\* Repository::is_clean, whose subject (the working copy's files) is not part
\* of the state.
SyncRun(dryRun, clean, base) ==
    /\ pc = "idle"
    /\ nextBackup <= MaxBackups
    /\ IF ~is_initialized
       THEN /\ result' = Outcome("sync", "NotInitialized")
            /\ UNCHANGED <<pc, run, history>>
       ELSE IF syncState # NoSync
       THEN /\ result' = Outcome("sync", "SyncAlreadyInProgress")
            /\ UNCHANGED <<pc, run, history>>
       ELSE IF ~clean
       THEN /\ result' = Outcome("sync", "DirtyWorkingDirectory")
            /\ UNCHANGED <<pc, run, history>>
       ELSE /\ pc' = "fetch"
            /\ run' = [IdleRun EXCEPT !.cmd = "sync", !.dryRun = dryRun, !.pre = refs,
                                      !.base = base]
            /\ result' = NoResult
            /\ touched' = {}
            /\ detected' = {}
            /\ crashed' = FALSE
            /\ lastRebased' = ""
            /\ rebasedOk' = {}
            /\ pendingBases' = {}
            /\ UNCHANGED <<preTips, planned, expected>>
    /\ UNCHANGED <<persistent, refs, head, rebasing, origin, forge, cleanup, aside, created, lateOps>>

\* A sync on the default base branch
SyncBegin(dryRun, clean) == SyncRun(dryRun, clean, Mainline)

\* Phase 0, Repository::fetch of the base branch into refs/heads/<base>: git
\* refuses to fetch into the checked-out branch and refuses a non-fast-forward;
\* a failure is a warning
SyncFetch ==
    /\ pc = "fetch"
    /\ \/ /\ run.base = Mainline
          /\ head # Mainline
          /\ IsAncestor(refs[Mainline], origin)
          /\ refs' = [refs EXCEPT ![Mainline] = origin]
       \/ refs' = refs
    /\ pc' = "detect"
    /\ UNCHANGED <<persistent, head, rebasing, origin, forge, cleanup, aside, created, lateOps, run, result, history>>

\* The stack's branches of the set D, in stack order
InStackOrder(s, D) == SelectSeq([i \in 1..Len(s) |-> s[i].name], LAMBDA n : n \in D)

\* The update_pr calls update_pr_bases makes for a list of Reparent records:
\* one for each record that has a PR
PrBases(reparented) ==
    {<<reparented[i].name, reparented[i].new_parent>> :
        i \in {j \in 1..Len(reparented) : reparented[j].pr # 0}}

\* Mutant of SyncDetect: the merged PRs are detected but the stack is not
\* reconciled before the plan
SyncDetect_Unsaved ==
    /\ pc = "detect"
    /\ \E D \in SUBSET {stack[i].name : i \in {j \in 1..Len(stack) :
                            stack[j].pr # 0 /\ forge[stack[j].name] = "merged"}} :
        /\ detected' = D
        /\ run' = [run EXCEPT !.reparented = Reparents(stack, InStackOrder(stack, D))]
        /\ pendingBases' = PrBases(Reparents(stack, InStackOrder(stack, D)))
    /\ pc' = "stale"
    /\ UNCHANGED <<persistent, vcs, forge, cleanup, aside, created, lateOps, result,
                   preTips, touched, planned, expected, crashed, lastRebased,
                   rebasedOk>>

\* Phase 1, detect_and_reconcile_merged: D is the set of branches whose get_pr
\* answered Merged (a failed get_pr or missing credentials leave a PR out)
SyncDetect ==
    /\ pc = "detect"
    /\ \E D \in SUBSET {stack[i].name : i \in {j \in 1..Len(stack) :
                            stack[j].pr # 0 /\ forge[stack[j].name] = "merged"}} :
        /\ detected' = D
        /\ IF D = {}
           THEN UNCHANGED <<stack, run>>
           ELSE /\ stack' = reconcile_merged(stack, InStackOrder(stack, D))
                /\ run' = [run EXCEPT !.reparented = Reparents(stack, InStackOrder(stack, D))]
        /\ pendingBases' = PrBases(Reparents(stack, InStackOrder(stack, D)))
    /\ pc' = "stale"
    /\ UNCHANGED <<syncState, backups, nextBackup, vcs, forge, cleanup, aside, created, lateOps, result,
                   preTips, touched, planned, expected, crashed, lastRebased,
                   rebasedOk>>

\* Phase 2, remove_stale_branches
SyncStale ==
    /\ pc = "stale"
    /\ stack' = remove_stale_branches(stack, refs)
    /\ pc' = "plan"
    /\ UNCHANGED <<syncState, backups, nextBackup, vcs, forge, cleanup, aside, created, lateOps, run, result, history>>

\* Phase 3, load the stack and create_sync_plan; the dry run and the empty
\* stack return here. The --dry-run flag is read here and nowhere else.
SyncPlan ==
    /\ pc = "plan"
    /\ IF stack = <<>>
       THEN /\ pc' = "idle" /\ run' = IdleRun
            /\ result' = Outcome("sync", "AlreadySynced")
            /\ UNCHANGED <<planned, expected, preTips>>
       ELSE IF PlanFails(stack, refs, run.base)
       THEN /\ pc' = "idle" /\ run' = IdleRun
            /\ result' = Outcome("sync", "BranchNotFound")
            /\ UNCHANGED <<planned, expected, preTips>>
       ELSE LET plan == create_sync_plan(stack, refs, run.base)
            IN  IF run.dryRun
                THEN /\ pc' = "idle" /\ run' = IdleRun
                     /\ result' = Outcome("sync", "DryRun")
                     /\ UNCHANGED <<planned, expected, preTips>>
                ELSE IF plan = <<>>
                THEN /\ pc' = "prbases"
                     /\ run' = [run EXCEPT !.res = Outcome("sync", "AlreadySynced")]
                     /\ result' = result
                     /\ UNCHANGED <<planned, expected, preTips>>
                ELSE /\ pc' = "exec_backup"
                     /\ run' = [run EXCEPT !.plan = plan]
                     /\ result' = result
                     /\ planned' = PlanNames(plan)
                     /\ expected' = ExecAll(plan, refs)
                     /\ preTips' = run.pre
    /\ detected' = IF pc' = "idle" THEN {} ELSE detected
    /\ UNCHANGED <<persistent, vcs, forge, cleanup, aside, created, lateOps, touched, crashed, lastRebased,
                   rebasedOk>>
    /\ UNCHANGED pendingBases

\* ---------------------------------------------------------------- execute_sync
\* Mutant of ExecBackup: only the first planned branch is snapshotted
ExecBackup_FirstOnly ==
    /\ pc = "exec_backup"
    /\ backups' = backups \cup
          {[id |-> nextBackup,
            entries |-> <<<<run.plan[1].branch, refs[run.plan[1].branch]>>>>]}
    /\ nextBackup' = nextBackup + 1
    /\ run' = [run EXCEPT !.backupId = nextBackup,
                          !.original = head,
                          !.mem = SyncStateNew(nextBackup, PlanNames(run.plan)),
                          !.idx = 1]
    /\ pc' = "exec_save"
    /\ lateOps' = 0
    /\ UNCHANGED <<stack, syncState, vcs, forge, cleanup, aside, created, result, history>>

\* execute_sync: snapshot the planned branches' tips into a new Backup
ExecBackup ==
    /\ pc = "exec_backup"
    /\ backups' = backups \cup
          {[id |-> nextBackup,
            entries |-> [i \in 1..Len(run.plan) |->
                            <<run.plan[i].branch, refs[run.plan[i].branch]>>]]}
    /\ nextBackup' = nextBackup + 1
    /\ run' = [run EXCEPT !.backupId = nextBackup,
                          !.original = head,
                          !.mem = SyncStateNew(nextBackup, PlanNames(run.plan)),
                          !.idx = 1]
    /\ pc' = "exec_save"
    /\ lateOps' = 0
    /\ UNCHANGED <<stack, syncState, vcs, forge, cleanup, aside, created, result, history>>

\* execute_sync: the first save_sync_state
ExecSaveState ==
    /\ pc = "exec_save"
    /\ syncState' = run.mem
    /\ pc' = "exec_checkout"
    /\ UNCHANGED <<stack, backups, nextBackup, vcs, forge, cleanup, aside, created, lateOps, run, result, history>>

\* execute_sync: checkout of the action's branch; a failure returns the error
ExecCheckout ==
    /\ pc = "exec_checkout"
    /\ LET b == run.plan[run.idx].branch
       IN  \/ /\ branch_exists(refs, b)
              /\ head' = b
              /\ touched' = touched \cup {b}
              /\ pc' = "exec_rebase"
              /\ UNCHANGED <<run, result>>
           \/ /\ pc' = "idle" /\ run' = IdleRun
              /\ result' = Outcome("sync", "CheckoutFailed")
              /\ UNCHANGED <<head, touched>>
    /\ detected' = IF pc' = "idle" THEN {} ELSE detected
    /\ UNCHANGED <<persistent, refs, rebasing, origin, forge, cleanup, aside, created, lateOps,
                   preTips, planned, expected, crashed, lastRebased, rebasedOk>>
    /\ UNCHANGED pendingBases

\* execute_sync: rebase_onto(new_base) and the three arms of its match. While
\* another rebase is in progress git refuses to start one, and rebase_onto
\* reports a conflict because is_rebasing() holds.
ExecRebase ==
    /\ pc = "exec_rebase"
    /\ LET b == run.plan[run.idx].branch
           target == run.plan[run.idx].new_base
       IN  \/ /\ rebasing # NoRebase
              /\ pc' = "exec_savepause"
              /\ UNCHANGED <<syncState, refs, head, rebasing, run, result, lastRebased,
                             rebasedOk>>
           \/ /\ rebasing = NoRebase
              /\ refs' = [refs EXCEPT ![b] = Rebased(@, target)]
              /\ run' = [run EXCEPT !.mem = advance(@)]
              /\ lastRebased' = b
              /\ rebasedOk' = rebasedOk \cup {b}
              /\ pc' = "exec_saveadv"
              /\ UNCHANGED <<syncState, head, rebasing, result>>
           \/ /\ rebasing = NoRebase
              /\ CanConflict(refs[b], target)
              /\ rebasing' = [branch |-> b, onto |-> target]
              /\ head' = Detached
              /\ pc' = "exec_savepause"
              /\ UNCHANGED <<syncState, refs, run, result, lastRebased, rebasedOk>>
           \/ /\ syncState' = NoSync
              /\ pc' = "idle" /\ run' = IdleRun
              /\ result' = Outcome("sync", "RebaseFailed")
              /\ UNCHANGED <<refs, head, rebasing, lastRebased, rebasedOk>>
    /\ touched' = touched \cup {run.plan[run.idx].branch}
    /\ detected' = IF pc' = "idle" THEN {} ELSE detected
    /\ UNCHANGED <<stack, backups, nextBackup, origin, forge, cleanup, aside, created, lateOps,
                   preTips, planned, expected, crashed>>
    /\ UNCHANGED pendingBases

\* execute_sync: save_sync_state after advance, then the next action
ExecSaveAdvance ==
    /\ pc = "exec_saveadv"
    /\ syncState' = run.mem
    /\ run' = [run EXCEPT !.idx = @ + 1]
    /\ pc' = IF run.idx = Len(run.plan) THEN "exec_clear" ELSE "exec_checkout"
    /\ UNCHANGED <<stack, backups, nextBackup, vcs, forge, cleanup, aside, created, lateOps, result, history>>

\* Mutant of ExecSavePause: the conflicted branch is advanced past before the save
ExecSavePause_Advanced ==
    /\ pc = "exec_savepause"
    /\ syncState' = advance(run.mem)
    /\ result' = Paused("sync", run.plan[run.idx].branch, run.backupId)
    /\ pc' = "idle" /\ run' = IdleRun
    /\ detected' = {}
    /\ UNCHANGED <<stack, backups, nextBackup, vcs, forge, cleanup, aside, created, lateOps,
                   preTips, touched, planned, expected, crashed, lastRebased,
                   rebasedOk>>
    /\ UNCHANGED pendingBases

\* execute_sync: save_sync_state on a conflict, return Paused
ExecSavePause ==
    /\ pc = "exec_savepause"
    /\ syncState' = run.mem
    /\ result' = Paused("sync", run.plan[run.idx].branch, run.backupId)
    /\ pc' = "idle" /\ run' = IdleRun
    /\ detected' = {}
    /\ UNCHANGED <<stack, backups, nextBackup, vcs, forge, cleanup, aside, created, lateOps,
                   preTips, touched, planned, expected, crashed, lastRebased,
                   rebasedOk>>
    /\ UNCHANGED pendingBases

\* Mutant of ExecClear: sync.json is left behind
ExecClear_Keep ==
    /\ pc = "exec_clear"
    /\ pc' = "exec_restore"
    /\ UNCHANGED <<persistent, vcs, forge, cleanup, aside, created, lateOps, run, result, history>>

\* execute_sync: clear_sync_state after the last action
ExecClear ==
    /\ pc = "exec_clear"
    /\ syncState' = NoSync
    /\ pc' = "exec_restore"
    /\ UNCHANGED <<stack, backups, nextBackup, vcs, forge, cleanup, aside, created, lateOps, run, result, history>>

\* execute_sync: best-effort checkout of the original branch, return Complete
ExecRestore ==
    /\ pc = "exec_restore"
    /\ head' = IF branch_exists(refs, run.original) THEN run.original ELSE head
    /\ run' = [run EXCEPT !.res = Complete("sync", Len(run.mem.completed), run.backupId)]
    /\ pc' = "prbases"
    /\ UNCHANGED <<persistent, refs, rebasing, origin, forge, cleanup, aside, created, lateOps, result, history>>

\* ---------------------------------------------------------------- after the rebases
\* update_pr_bases: update_pr(pr, base = new_parent) for the re-parented
\* branches that have a PR; a failure is a warning
SyncUpdatePrBases ==
    /\ pc = "prbases"
    /\ pendingBases' = pendingBases \ PrBases(run.reparented)
    /\ run' = [run EXCEPT !.prUpdated = PrBases(run.reparented) # {}]
    /\ pc' = "push"
    /\ UNCHANGED <<persistent, vcs, forge, cleanup, aside, created, lateOps, result,
                   preTips, touched, detected, planned, expected, crashed,
                   lastRebased, rebasedOk>>

SyncPush_Always(no_push) ==
    /\ pc = "push"
    /\ result' = [run.res EXCEPT !.no_push = no_push,
                                 !.pushed = {stack[i].name : i \in 1..Len(stack)}]
    /\ pc' = "idle" /\ run' = IdleRun
    /\ detected' = {}
    /\ UNCHANGED <<persistent, refs, head, rebasing, origin, forge, cleanup, aside, created, lateOps,
                   preTips, touched, planned, expected, crashed, lastRebased,
                   rebasedOk>>
    /\ UNCHANGED pendingBases

\* Phase 5 and the return: unless no_push, push_stack_branches force-pushes
\* (with lease) the stack's branches that exist locally; a failed push is a
\* warning
SyncPush(no_push) ==
    /\ pc = "push"
    /\ result' = [run.res EXCEPT
                     !.no_push = no_push,
                     !.pushed = IF no_push THEN {}
                                ELSE {stack[i].name : i \in
                                        {j \in 1..Len(stack) : branch_exists(refs, stack[j].name)}}]
    /\ pc' = "idle" /\ run' = IdleRun
    /\ detected' = {}
    /\ UNCHANGED <<persistent, refs, head, rebasing, origin, forge, cleanup, aside, created, lateOps,
                   preTips, touched, planned, expected, crashed, lastRebased,
                   rebasedOk>>
    /\ UNCHANGED pendingBases

\* ---------------------------------------------------------------- continue_sync
\* commands/sync.rs run with --continue
ContinueBegin ==
    /\ pc = "idle"
    /\ IF ~is_initialized
       THEN /\ result' = Outcome("continue", "NotInitialized")
            /\ UNCHANGED <<pc, run>>
       ELSE IF syncState = NoSync
       THEN /\ result' = Outcome("continue", "NoSyncInProgress")
            /\ UNCHANGED <<pc, run>>
       ELSE /\ pc' = "cont_continue"
            /\ run' = [IdleRun EXCEPT !.cmd = "continue",
                                      !.mem = syncState,
                                      !.backupId = syncState.backup_id]
            /\ result' = NoResult
    /\ UNCHANGED <<persistent, refs, head, rebasing, origin, forge, cleanup, aside, created, lateOps, history>>

\* continue_sync: rebase_continue and the three arms of its match; git fails
\* when no rebase is in progress
ContRebaseContinue ==
    /\ pc = "cont_continue"
    /\ \/ /\ rebasing # NoRebase
          /\ refs' = [refs EXCEPT ![rebasing.branch] = Rebased(@, rebasing.onto)]
          /\ head' = rebasing.branch
          /\ rebasing' = NoRebase
          /\ run' = [run EXCEPT !.mem = advance(@)]
          /\ lastRebased' = rebasing.branch
          /\ rebasedOk' = rebasedOk \cup {rebasing.branch}
          /\ touched' = touched \cup {rebasing.branch}
          /\ pc' = "cont_save"
          /\ result' = result
       \/ /\ rebasing # NoRebase
          /\ result' = Paused("continue", run.mem.current, run.backupId)
          /\ pc' = "idle" /\ run' = IdleRun
          /\ UNCHANGED <<refs, head, rebasing, lastRebased, rebasedOk, touched>>
       \/ /\ rebasing # NoRebase
          /\ result' = Outcome("continue", "RebaseFailed")
          /\ pc' = "idle" /\ run' = IdleRun
          /\ UNCHANGED <<refs, head, rebasing, lastRebased, rebasedOk, touched>>
       \/ /\ rebasing = NoRebase
          /\ result' = Outcome("continue", "NoRebaseInProgress")
          /\ pc' = "idle" /\ run' = IdleRun
          /\ UNCHANGED <<refs, head, rebasing, lastRebased, rebasedOk, touched>>
    /\ UNCHANGED <<persistent, origin, forge, cleanup, aside, created, lateOps, preTips, detected, planned,
                   expected, crashed>>
    /\ UNCHANGED pendingBases

\* continue_sync: save_sync_state after the advance; the loop then runs over
\* a copy of `remaining`
ContSave ==
    /\ pc = "cont_save"
    /\ syncState' = run.mem
    /\ run' = [run EXCEPT !.loop = run.mem.remaining]
    /\ pc' = IF run.mem.remaining = <<>> THEN "cont_clear" ELSE "cont_checkout"
    /\ UNCHANGED <<stack, backups, nextBackup, vcs, forge, cleanup, aside, created, lateOps, result, history>>

\* continue_sync: checkout of the next remaining branch, load_stack,
\* find_branch and the parent's tip; each failure returns the error
ContCheckout ==
    /\ pc = "cont_checkout"
    /\ LET b == Head(run.loop)
           found == branch_exists(refs, b) /\ HasBranch(stack, b)
           parent == IF found THEN ParentName(find_branch(stack, b), "main") ELSE ""
       IN  \/ /\ found /\ branch_exists(refs, parent)
              /\ head' = b
              /\ touched' = touched \cup {b}
              /\ run' = [run EXCEPT !.target = refs[parent]]
              /\ pc' = "cont_rebase"
              /\ result' = result
           \/ /\ branch_exists(refs, b)
              /\ ~(HasBranch(stack, b) /\ branch_exists(refs, parent))
              /\ head' = b
              /\ touched' = touched \cup {b}
              /\ pc' = "idle" /\ run' = IdleRun
              /\ result' = Outcome("continue", "NotInStack")
           \/ /\ pc' = "idle" /\ run' = IdleRun
              /\ result' = Outcome("continue", "CheckoutFailed")
              /\ UNCHANGED <<head, touched>>
    /\ detected' = IF pc' = "idle" THEN {} ELSE detected
    /\ UNCHANGED <<persistent, refs, rebasing, origin, forge, cleanup, aside, created, lateOps,
                   preTips, planned, expected, crashed, lastRebased, rebasedOk>>
    /\ UNCHANGED pendingBases

\* continue_sync: rebase_onto(parent_commit) and the three arms of its match
ContRebase ==
    /\ pc = "cont_rebase"
    /\ LET b == Head(run.loop)
       IN  \/ /\ refs' = [refs EXCEPT ![b] = Rebased(@, run.target)]
              /\ run' = [run EXCEPT !.mem = advance(@)]
              /\ lastRebased' = b
              /\ rebasedOk' = rebasedOk \cup {b}
              /\ pc' = "cont_saveadv"
              /\ UNCHANGED <<syncState, head, rebasing, result>>
           \/ /\ CanConflict(refs[b], run.target)
              /\ rebasing' = [branch |-> b, onto |-> run.target]
              /\ head' = Detached
              /\ pc' = "cont_savepause"
              /\ UNCHANGED <<syncState, refs, run, result, lastRebased, rebasedOk>>
           \/ /\ syncState' = NoSync
              /\ pc' = "idle" /\ run' = IdleRun
              /\ result' = Outcome("continue", "RebaseFailed")
              /\ UNCHANGED <<refs, head, rebasing, lastRebased, rebasedOk>>
    /\ touched' = touched \cup {Head(run.loop)}
    /\ detected' = IF pc' = "idle" THEN {} ELSE detected
    /\ UNCHANGED <<stack, backups, nextBackup, origin, forge, cleanup, aside, created, lateOps,
                   preTips, planned, expected, crashed>>
    /\ UNCHANGED pendingBases

\* continue_sync: save_sync_state after advance, then the next branch
ContSaveAdvance ==
    /\ pc = "cont_saveadv"
    /\ syncState' = run.mem
    /\ run' = [run EXCEPT !.loop = Tail(@)]
    /\ pc' = IF Tail(run.loop) = <<>> THEN "cont_clear" ELSE "cont_checkout"
    /\ UNCHANGED <<stack, backups, nextBackup, vcs, forge, cleanup, aside, created, lateOps, result, history>>

\* continue_sync: save_sync_state on a conflict, return Paused
ContSavePause ==
    /\ pc = "cont_savepause"
    /\ syncState' = run.mem
    /\ result' = Paused("continue", Head(run.loop), run.backupId)
    /\ pc' = "idle" /\ run' = IdleRun
    /\ detected' = {}
    /\ UNCHANGED <<stack, backups, nextBackup, vcs, forge, cleanup, aside, created, lateOps,
                   preTips, touched, planned, expected, crashed, lastRebased,
                   rebasedOk>>
    /\ UNCHANGED pendingBases

\* continue_sync: clear_sync_state, return Complete; run then pushes
ContClear ==
    /\ pc = "cont_clear"
    /\ syncState' = NoSync
    /\ run' = [run EXCEPT !.res = Complete("continue", Len(run.mem.completed), run.backupId)]
    /\ pc' = "push"
    /\ UNCHANGED <<stack, backups, nextBackup, vcs, forge, cleanup, aside, created, lateOps, result, history>>

\* ---------------------------------------------------------------- abort, undo
\* Mutant of ResetAll: the first entry of the backup is not reset
ResetAll_SkipFirst(r, entries) ==
    [b \in DOMAIN r |->
        IF \E i \in 2..Len(entries) : entries[i][1] = b
        THEN entries[CHOOSE i \in 2..Len(entries) : entries[i][1] = b][2]
        ELSE r[b]]

\* The tips after reset_branch on every entry of a backup
RECURSIVE ResetAll(_, _)
ResetAll(r, entries) ==
    IF entries = <<>> THEN r
    ELSE ResetAll([r EXCEPT ![Head(entries)[1]] = Head(entries)[2]], Tail(entries))

\* commands/sync.rs run with --abort, and abort_sync
\* An abort that also drops the planned branches from the stack
Abort_Unstack ==
    /\ pc = "idle"
    /\ IF ~is_initialized
       THEN /\ result' = Outcome("abort", "NotInitialized")
            /\ UNCHANGED <<persistent, vcs>>
       ELSE IF syncState = NoSync
       THEN /\ result' = Outcome("abort", "NoSyncInProgress")
            /\ UNCHANGED <<persistent, vcs>>
       ELSE /\ head' = IF rebasing # NoRebase THEN rebasing.branch ELSE head
            /\ rebasing' = NoRebase
            /\ IF HasBackup(backups, syncState.backup_id)
               THEN /\ refs' = ResetAll(refs, load_backup(backups, syncState.backup_id))
                    /\ syncState' = NoSync
                    /\ stack' = SelectSeq(stack, LAMBDA e : e.name \notin Range(planned))
                    /\ result' = Outcome("abort", "Aborted")
               ELSE /\ result' = Outcome("abort", "NoBackup")
                    /\ UNCHANGED <<refs, syncState, stack>>
            /\ UNCHANGED <<backups, nextBackup, origin>>
    /\ UNCHANGED <<forge, cleanup, aside, created, lateOps, pc, run, history>>

Abort ==
    /\ pc = "idle"
    /\ IF ~is_initialized
       THEN /\ result' = Outcome("abort", "NotInitialized")
            /\ UNCHANGED <<persistent, vcs>>
       ELSE IF syncState = NoSync
       THEN /\ result' = Outcome("abort", "NoSyncInProgress")
            /\ UNCHANGED <<persistent, vcs>>
       ELSE /\ head' = IF rebasing # NoRebase THEN rebasing.branch ELSE head
            /\ rebasing' = NoRebase
            /\ IF HasBackup(backups, syncState.backup_id)
               THEN /\ refs' = ResetAll(refs, load_backup(backups, syncState.backup_id))
                    /\ syncState' = NoSync
                    /\ result' = Outcome("abort", "Aborted")
               ELSE /\ result' = Outcome("abort", "NoBackup")
                    /\ UNCHANGED <<refs, syncState>>
            /\ UNCHANGED <<stack, backups, nextBackup, origin>>
    /\ UNCHANGED <<forge, cleanup, aside, created, lateOps, pc, run, history>>

\* An undo command without its precondition
UndoAllowed_Always == TRUE

\* The precondition of the undo command (commands/undo.rs): no sync in progress
UndoAllowed == syncState = NoSync

\* An undo command that does not fail on an empty backup directory
Undo_NoBackupCheck ==
    /\ pc = "idle"
    /\ IF ~UndoAllowed
       THEN /\ result' = Outcome("undo", "SyncInProgress")
            /\ UNCHANGED backups
       ELSE /\ backups' = {b \in backups : b.id # latest_backup(backups)}
            /\ result' = Outcome("undo", "Undone")
    /\ UNCHANGED <<stack, syncState, nextBackup, vcs, forge, cleanup, aside, created, lateOps, pc, run, history>>

\* The undo command: refused while a sync is in progress, undo_sync otherwise
Undo ==
    /\ pc = "idle"
    /\ IF ~UndoAllowed
       THEN /\ result' = Outcome("undo", "SyncInProgress")
            /\ UNCHANGED backups
       ELSE IF backups = {}
       THEN /\ result' = Outcome("undo", "NoBackup")
            /\ UNCHANGED backups
       ELSE /\ backups' = {b \in backups : b.id # latest_backup(backups)}
            /\ result' = Outcome("undo", "Undone")
    /\ UNCHANGED <<stack, syncState, nextBackup, vcs, forge, cleanup, aside, created, lateOps, pc, run, history>>

\* ---------------------------------------------------------------- init, navigation, queries
\* Everything a query leaves alone
butResult == <<persistent, vcs, forge, cleanup, created, lateOps, pc, run, history, aside>>

\* `rung init`: creates the state directory with an empty stack.json when
\* there is none
RungInit ==
    /\ pc = "idle"
    /\ initialized' = TRUE
    /\ result' = Outcome("init", IF initialized THEN "AlreadyInitialized" ELSE "Initialized")
    /\ UNCHANGED <<persistent, vcs, forge, cleanup, created, lateOps, pc, run, history,
                   comments, disk, call>>

\* `rung status`
Status ==
    /\ pc = "idle"
    /\ result' = Outcome("status", IF is_initialized THEN "Ok" ELSE "NotInitialized")
    /\ UNCHANGED butResult

\* `rung doctor` reports a missing stack.json as an issue and returns
Doctor ==
    /\ pc = "idle"
    /\ result' = Outcome("doctor", IF is_initialized THEN "Ok" ELSE "Issues")
    /\ UNCHANGED butResult

\* commands/log.rs run: the commits of the checked-out stack branch that its
\* parent does not have
Log ==
    /\ pc = "idle"
    /\ result' = Outcome("log",
            IF ~is_initialized THEN "NotInitialized"
            ELSE IF /\ head # Detached
                    /\ HasBranch(stack, head)
                    /\ branch_exists(refs, find_branch(stack, head).parent)
                    /\ OwnPatches(refs[head], refs[find_branch(stack, head).parent]) # <<>>
                 THEN "Ok" ELSE "Error")
    /\ UNCHANGED butResult

\* Repository::checkout as the navigation commands call it
Navigate(cmd, ok, b) ==
    /\ pc = "idle"
    /\ IF ~is_initialized
       THEN result' = Outcome(cmd, "NotInitialized") /\ UNCHANGED head
       ELSE IF head # Detached /\ ok /\ branch_exists(refs, b) /\ rebasing = NoRebase
       THEN result' = Outcome(cmd, "Ok") /\ head' = b
       ELSE result' = Outcome(cmd, "Error") /\ UNCHANGED head
    /\ UNCHANGED <<persistent, refs, rebasing, origin, forge, cleanup, created, lateOps,
                   pc, run, history, aside>>

\* commands/navigate.rs run_next: to the only child of the checked-out branch
Nxt ==
    LET children == ChildrenOf(stack, head)
    IN  Navigate("nxt", Len(children) = 1, IF children = <<>> THEN head ELSE children[1])

\* commands/navigate.rs run_prev: to the parent of the checked-out branch
Prv ==
    Navigate("prv", HasBranch(stack, head),
             IF HasBranch(stack, head) THEN find_branch(stack, head).parent ELSE head)

\* commands/mv.rs run: to the branch the operator picks from the stack
Move(b) ==
    /\ b \in Names
    /\ Navigate("move", HasBranch(stack, b) /\ b # head, b)

\* ---------------------------------------------------------------- interruption
\* The process stops between two steps of a sync or of its continuation
Crash ==
    /\ pc # "idle"
    /\ pc' = "idle" /\ run' = IdleRun
    /\ result' = Outcome(run.cmd, "Crashed")
    /\ crashed' = (pc \notin {"fetch", "detect", "stale", "plan"})
    /\ detected' = {}
    /\ UNCHANGED <<persistent, vcs, forge, cleanup, aside, created, lateOps, preTips, touched, planned,
                   expected, lastRebased, rebasedOk>>
    /\ UNCHANGED pendingBases

\* ---------------------------------------------------------------- specification
Next ==
    \/ GitCommit
    \/ \E b \in AllBranches : GitCheckout(b)
    \/ \E b \in Names : GitDeleteBranch(b)
    \/ OriginMainAdvance
    \/ \E b \in Names : ForgeMerge(b)
    \/ \E n \in Names : Create(<<n>>, "clean")
    \/ \E n \in Names : Recreate(n)
    \/ \E k \in {0, Len(stack)} : Submit(k)
    \/ \E n \in 0..MaxStack, how \in {"done", "error", "conflict"} : Merge(n, how)
    \/ \E dr \in BOOLEAN, clean \in BOOLEAN : SyncBegin(dr, clean)
    \/ SyncFetch
    \/ SyncDetect
    \/ SyncStale
    \/ SyncPlan
    \/ ExecBackup
    \/ ExecSaveState
    \/ ExecCheckout
    \/ ExecRebase
    \/ ExecSaveAdvance
    \/ ExecSavePause
    \/ ExecClear
    \/ ExecRestore
    \/ SyncUpdatePrBases
    \/ SyncPush(FALSE)
    \/ ContinueBegin
    \/ ContRebaseContinue
    \/ ContSave
    \/ ContCheckout
    \/ ContRebase
    \/ ContSaveAdvance
    \/ ContSavePause
    \/ ContClear
    \/ Abort
    \/ Undo
    \/ Crash

Spec == Init /\ [][Next]_vars

\* The rebase phase on its own: no pull requests and no deleted branches, so
\* reconciliation and stale cleanup leave the stack as it is
NextRebase ==
    \/ GitCommit
    \/ \E b \in AllBranches : GitCheckout(b)
    \/ OriginMainAdvance
    \/ \E n \in Names : Create(<<n>>, "clean")
    \/ \E dr \in BOOLEAN, clean \in BOOLEAN : SyncBegin(dr, clean)
    \/ SyncFetch
    \/ SyncDetect
    \/ SyncStale
    \/ SyncPlan
    \/ ExecBackup
    \/ ExecSaveState
    \/ ExecCheckout
    \/ ExecRebase
    \/ ExecSaveAdvance
    \/ ExecSavePause
    \/ ExecClear
    \/ ExecRestore
    \/ SyncUpdatePrBases
    \/ SyncPush(FALSE)
    \/ ContinueBegin
    \/ ContRebaseContinue
    \/ ContSave
    \/ ContCheckout
    \/ ContRebase
    \/ ContSaveAdvance
    \/ ContSavePause
    \/ ContClear
    \/ Abort
    \/ Undo
    \/ Crash

SpecRebase == Init /\ [][NextRebase]_vars

\* Reconciliation on its own: pull requests are submitted and merged and local
\* branches deleted; the operator stays on the branch created last, a sync is
\* asked for on a clean working copy, and an interrupted or paused sync is not
\* resumed
NextReconcile ==
    \/ GitCommit
    \/ \E b \in Names : GitDeleteBranch(b)
    \/ OriginMainAdvance
    \/ \E b \in Names : ForgeMerge(b)
    \/ \E n \in Names : Create(<<n>>, "clean")
    \/ \E k \in {0, Len(stack)} : Submit(k)
    \/ \E dr \in BOOLEAN : SyncBegin(dr, TRUE)
    \/ SyncFetch
    \/ SyncDetect
    \/ SyncStale
    \/ SyncPlan
    \/ ExecBackup
    \/ ExecSaveState
    \/ ExecCheckout
    \/ ExecRebase
    \/ ExecSaveAdvance
    \/ ExecSavePause
    \/ ExecClear
    \/ ExecRestore
    \/ SyncUpdatePrBases
    \/ SyncPush(FALSE)

SpecReconcile == Init /\ [][NextReconcile]_vars

\* The stack on its own: branches are created, submitted and merged, but
\* nobody commits, so a sync never has anything to rebase
NextStack ==
    \/ \E b \in AllBranches : GitCheckout(b)
    \/ \E b \in Names : ForgeMerge(b)
    \/ \E n \in Names : Create(<<n>>, "clean")
    \/ \E k \in {0, Len(stack)} : Submit(k)
    \/ \E n \in 0..MaxStack, how \in {"done", "error", "conflict"} : Merge(n, how)
    \/ \E dr \in BOOLEAN, clean \in BOOLEAN : SyncBegin(dr, clean)
    \/ SyncFetch
    \/ SyncDetect
    \/ SyncStale
    \/ SyncPlan
    \/ SyncUpdatePrBases
    \/ SyncPush(FALSE)

SpecStack == Init /\ [][NextStack]_vars

\* Branch names on their own: local branches are deleted by hand and their
\* names taken again; no pull requests and no commits
NextNames ==
    \/ \E b \in AllBranches : GitCheckout(b)
    \/ \E b \in Names : GitDeleteBranch(b)
    \/ \E n \in Names : Create(<<n>>, "clean")
    \/ \E n \in Names : Recreate(n)
    \/ \E dr \in BOOLEAN, clean \in BOOLEAN : SyncBegin(dr, clean)
    \/ SyncFetch
    \/ SyncDetect
    \/ SyncStale
    \/ SyncPlan
    \/ SyncUpdatePrBases
    \/ SyncPush(FALSE)

SpecNames == Init /\ [][NextNames]_vars

\* Pull requests and rebases together: a sync that re-parents, rebases, pauses
\* and is resumed; pull requests merge on the forge, no branch is deleted by
\* hand, no run is interrupted, and a sync is asked for without --dry-run on a
\* clean working copy
NextForge ==
    \/ GitCommit
    \/ \E b \in AllBranches : GitCheckout(b)
    \/ OriginMainAdvance
    \/ \E b \in Names : ForgeMerge(b)
    \/ \E n \in Names : Create(<<n>>, "clean")
    \/ Submit(Len(stack))
    \/ SyncBegin(FALSE, TRUE)
    \/ SyncFetch
    \/ SyncDetect
    \/ SyncStale
    \/ SyncPlan
    \/ ExecBackup
    \/ ExecSaveState
    \/ ExecCheckout
    \/ ExecRebase
    \/ ExecSaveAdvance
    \/ ExecSavePause
    \/ ExecClear
    \/ ExecRestore
    \/ SyncUpdatePrBases
    \/ SyncPush(FALSE)
    \/ ContinueBegin
    \/ ContRebaseContinue
    \/ ContSave
    \/ ContCheckout
    \/ ContRebase
    \/ ContSaveAdvance
    \/ ContSavePause
    \/ ContClear

SpecForge == Init /\ [][NextForge]_vars

\* The same, with syncs and continuations run with and without --no-push
NextPush ==
    \/ NextForge
    \/ SyncPush(TRUE)

SpecPush == Init /\ [][NextPush]_vars

\* `rung sync --base develop` and its continuation on a stack whose branches
\* have no recorded parent: the stack.json holds null parents, every branch
\* starts from the root commit with or without a commit of its own, develop
\* has a commit the mainline does not have, and the mainline may have moved
InitBase ==
    /\ \E main \in {RootCommit, <<"m0", "m1">>}, own \in SUBSET Names :
          InitFrom([i \in 1..MaxStack |-> Entry(NamePool[i], "", 0)],
                   [b \in AllBranches |->
                       IF b = Mainline THEN main
                       ELSE IF b = OtherBase THEN <<"m0", "d1">>
                       ELSE IF b \in own THEN <<"m0", b>> ELSE RootCommit])
    /\ initialized = TRUE
    /\ call = NoCall

NextBase ==
    \/ SyncRun(FALSE, TRUE, OtherBase)
    \/ SyncFetch
    \/ SyncDetect
    \/ SyncStale
    \/ SyncPlan
    \/ ExecBackup
    \/ ExecSaveState
    \/ ExecCheckout
    \/ ExecRebase
    \/ ExecSaveAdvance
    \/ ExecSavePause
    \/ ExecClear
    \/ ExecRestore
    \/ SyncUpdatePrBases
    \/ SyncPush(FALSE)
    \/ ContinueBegin
    \/ ContRebaseContinue
    \/ ContSave
    \/ ContCheckout
    \/ ContRebase
    \/ ContSaveAdvance
    \/ ContSavePause
    \/ ContClear

SpecBase == InitBase /\ [][NextBase]_vars

\* Rebases, continuations, aborts and undos of uninterrupted syncs on stacks
\* that lose a local branch behind rung's back, so that Phase 2 has something
\* to remove
NextFrame ==
    \/ GitCommit
    \/ \E b \in AllBranches : GitCheckout(b)
    \/ \E b \in Names : GitDeleteBranch(b)
    \/ OriginMainAdvance
    \/ \E n \in Names : Create(<<n>>, "clean")
    \/ SyncBegin(FALSE, TRUE)
    \/ SyncFetch
    \/ SyncDetect
    \/ SyncStale
    \/ SyncPlan
    \/ ExecBackup
    \/ ExecSaveState
    \/ ExecCheckout
    \/ ExecRebase
    \/ ExecSaveAdvance
    \/ ExecSavePause
    \/ ExecClear
    \/ ExecRestore
    \/ SyncUpdatePrBases
    \/ SyncPush(FALSE)
    \/ ContinueBegin
    \/ ContRebaseContinue
    \/ ContSave
    \/ ContCheckout
    \/ ContRebase
    \/ ContSaveAdvance
    \/ ContSavePause
    \/ ContClear
    \/ Abort
    \/ Undo

SpecFrame == Init /\ [][NextFrame]_vars

\* The merge command on any branch of the stack, followed by a sync: branches
\* are checked out by hand, pull requests merge only through the merge command,
\* whose calls of the forge and the remote all succeed, and a paused sync is
\* not resumed
NextMerge ==
    \/ GitCommit
    \/ \E b \in AllBranches : GitCheckout(b)
    \/ \E n \in Names : Create(<<n>>, "clean")
    \/ Submit(Len(stack))
    \/ \E n \in 0..MaxStack, how \in {"done", "conflict"} : Merge(n, how)
    \/ \E dr \in BOOLEAN, clean \in BOOLEAN : SyncBegin(dr, clean)
    \/ SyncFetch
    \/ SyncDetect
    \/ SyncStale
    \/ SyncPlan
    \/ ExecBackup
    \/ ExecSaveState
    \/ ExecCheckout
    \/ ExecRebase
    \/ ExecSaveAdvance
    \/ ExecSavePause
    \/ ExecClear
    \/ ExecRestore
    \/ SyncUpdatePrBases
    \/ SyncPush(FALSE)

SpecMerge == Init /\ [][NextMerge]_vars

\* The merge command alone, on stacks built by create, commit, checkout and
\* submit, with pull requests that may also merge on the forge
NextCleanup ==
    \/ GitCommit
    \/ \E b \in AllBranches : GitCheckout(b)
    \/ \E b \in Names : ForgeMerge(b)
    \/ \E n \in Names : Create(<<n>>, "clean")
    \/ \E k \in {0, Len(stack)} : Submit(k)
    \/ \E n \in 0..MaxStack, how \in {"done", "error", "conflict"} : Merge(n, how)

SpecCleanup == Init /\ [][NextCleanup]_vars

\* The state store alone: saves of stack.json, the process stopping in the
\* middle of one, and loads
NextSave ==
    \/ \E s \in SavedStacks : SaveBegin(s)
    \/ SaveWrite
    \/ SaveRename
    \/ SaveCrash
    \/ Load

SpecSave == Init /\ [][NextSave]_vars

\* BranchName::new on each candidate name
InitNew == InitProgram /\ initialized = TRUE /\ \E s \in NameInputs : call = [NoCall EXCEPT !.arg = s]

NextNew == BranchNameNew

SpecNew == InitNew /\ [][NextNew]_vars

\* Serialization and deserialization of each candidate name
NextSerde ==
    \/ BranchNameDeserialize
    \/ BranchNameRoundTrip
    \/ LoadNamed

SpecSerde == InitNew /\ [][NextSerde]_vars

\* slugify on each text, and again on its result
InitSlug == InitProgram /\ initialized = TRUE /\ \E s \in SlugInputs : call = [NoCall EXCEPT !.arg = s]

NextSlug ==
    \/ Slugify
    \/ SlugifyAgain

SpecSlug == InitSlug /\ [][NextSlug]_vars

\* submit runs that stop anywhere, between creates, checkouts, commits and
\* merges on the forge
NextComments ==
    \/ GitCommit
    \/ \E b \in AllBranches : GitCheckout(b)
    \/ \E b \in Names : ForgeMerge(b)
    \/ \E n \in Names : Create(<<n>>, "clean")
    \/ \E k \in 0..MaxStack, c \in 0..MaxStack : SubmitRun(k, c)

SpecComments == Init /\ [][NextComments]_vars

\* create_sync_plan on each stack and each assignment of tips
InitPlan ==
    /\ InitProgram /\ initialized = TRUE
    /\ \E s \in PlanStacks, r \in PlanRefs : call = [NoCall EXCEPT !.arg = [stack |-> s, refs |-> r]]

NextPlan == PlanCall

SpecPlan == InitPlan /\ [][NextPlan]_vars

\* create alone, on every spelling and working copy, between commits and
\* checkouts
NextCreate ==
    \/ GitCommit
    \/ \E b \in AllBranches : GitCheckout(b)
    \/ \E typed \in Typed, wc \in WorkingCopies : Create(typed, wc)

SpecCreate == Init /\ [][NextCreate]_vars

\* Every command on a repository without stack.json, `rung init`, and then
\* create, submit, merge, navigation and the queries on branches without
\* commits; a sync is only asked for on a working copy that is not clean
InitBare == InitProgram /\ initialized = FALSE /\ call = NoCall

NextBare ==
    \/ RungInit
    \/ Status
    \/ Doctor
    \/ Log
    \/ Nxt
    \/ Prv
    \/ \E b \in Names : Move(b)
    \/ \E n \in Names : \E typed \in {<<n>>, <<".", ".", "/", n>>} : Create(typed, "clean")
    \/ \E dryRun \in BOOLEAN : SyncBegin(dryRun, FALSE)
    \/ ContinueBegin
    \/ Abort
    \/ \E k \in {0, Len(stack)} : Submit(k)
    \/ \E n \in 0..MaxStack, how \in {"done", "error", "conflict"} : Merge(n, how)

SpecBare == InitBare /\ [][NextBare]_vars

\* ---------------------------------------------------------------- properties
\* A plain sync or a continuation has just returned `kind`
Returned(cmd, kind) == pc = "idle" /\ result.cmd = cmd /\ result.kind = kind

\* The entries of the Backup the running sync created cover the plan, each
\* with the tip the branch had when the run started
BackupOfRun ==
    \E b \in backups :
        /\ b.id = run.backupId
        /\ b.entries = [i \in 1..Len(run.plan) |->
                           <<run.plan[i].branch, run.pre[run.plan[i].branch]>>]

\* The branches a SyncState still has to do
ToDo(st) == (IF st.current = "" THEN {} ELSE {st.current}) \cup Range(st.remaining)

\* C1: after a plain sync that returned Complete, every branch of the stack
\* sits on its parent's current tip: the merge base of the branch and its
\* parent (the base branch for a branch without parent) is the parent's tip.
C1_SyncedAfterComplete ==
    Returned("sync", "Complete") =>
        \A i \in 1..Len(stack) :
            merge_base(refs[stack[i].name], refs[ParentName(stack[i], Mainline)])
                = refs[ParentName(stack[i], Mainline)]

\* C2: a sync that was interrupted after its Backup was written and then
\* resumed with `sync --continue`, with no operator action in between, ends
\* with the branch tips an uninterrupted run of the same plan leaves.
C2_ResumeEqualsUninterrupted ==
    (/\ pc = "idle" /\ crashed /\ lateOps = 0
     /\ result.cmd = "continue"
     /\ result.kind \in {"Complete", "NoRebaseInProgress"})
        => refs = expected

\* C3: a plain sync issues a checkout or a rebase only when the Backup of the
\* run holds one entry per planned branch with the branch's tip from before
\* the run and sync.json references that Backup; and sync.json is first
\* written only when that Backup is already there.
C3_BackupBeforeRebase ==
    [][/\ (pc \in {"exec_checkout", "exec_rebase"})
            => (BackupOfRun /\ syncState.backup_id = run.backupId)
       /\ (run.cmd = "sync" /\ syncState = NoSync /\ syncState' # NoSync)
            => (BackupOfRun /\ syncState'.backup_id = run.backupId)]_vars

C3_Witness ==
    /\ pc = "exec_rebase" /\ run.idx = 1 /\ Len(run.plan) >= 2
    /\ BackupOfRun /\ syncState.backup_id = run.backupId
    /\ refs[Mainline] # run.pre[Mainline]

\* C4: a `sync --abort` that succeeds leaves every branch recorded in the
\* Backup that sync.json referenced at the tip it had before the sync, the
\* VCS out of its rebase, and no sync.json.
C4_AbortRestores ==
    [][(syncState # NoSync /\ result'.kind = "Aborted")
          => /\ \A i \in 1..Len(load_backup(backups, syncState.backup_id)) :
                  LET e == load_backup(backups, syncState.backup_id)[i]
                  IN  refs'[e[1]] = preTips[e[1]]
             /\ {load_backup(backups, syncState.backup_id)[i][1] :
                   i \in 1..Len(load_backup(backups, syncState.backup_id))}
                  = Range(planned)
             /\ rebasing' = NoRebase
             /\ syncState' = NoSync]_vars

C4_Witness ==
    /\ Returned("abort", "Aborted")
    /\ rebasedOk # {}
    /\ \A b \in Range(planned) : refs[b] = preTips[b] /\ refs[b] # expected[b]
    /\ rebasing = NoRebase /\ syncState = NoSync

\* C5: after a `sync --abort` that succeeds on a paused sync, the Backup that
\* sync.json referenced no longer exists.
C5_AbortDeletesBackup ==
    [][(syncState # NoSync /\ rebasing # NoRebase /\ ~crashed /\ result'.kind = "Aborted")
          => ~HasBackup(backups', syncState.backup_id)]_vars

\* The last sync rebased every planned branch and ended, and its Backup is
\* the latest one
CompletedSync ==
    /\ pc = "idle" /\ syncState = NoSync /\ ~crashed
    /\ planned # <<>> /\ Range(planned) \subseteq rebasedOk
    /\ latest_backup(backups) = nextBackup - 1

\* C6: an undo after a sync that completed, whose Backup is still the latest
\* one, sets every branch recorded in that Backup to the tip it had before
\* the sync, and deletes that Backup.
C6_UndoRestores ==
    [][(CompletedSync /\ result'.kind = "Undone")
          => /\ \A i \in 1..Len(load_backup(backups, latest_backup(backups))) :
                  LET e == load_backup(backups, latest_backup(backups))[i]
                  IN  refs'[e[1]] = preTips[e[1]]
             /\ ~HasBackup(backups', latest_backup(backups))]_vars

C8_ProgressMonotone ==
    [][/\ (syncState' # NoSync)
            => /\ Range(syncState'.completed) \cup ToDo(syncState') = Range(planned)
               /\ Range(syncState'.completed) \cap ToDo(syncState') = {}
       /\ (syncState # NoSync /\ syncState' # NoSync /\ syncState' # syncState)
            => /\ syncState'.completed = Append(syncState.completed, lastRebased')
               /\ ToDo(syncState') \subseteq ToDo(syncState)
               /\ ToDo(syncState') # ToDo(syncState)]_vars

\* A plain sync or a continuation has returned, the sync was not interrupted,
\* and the rebase of every planned branch has succeeded
AllRebased ==
    /\ pc = "idle" /\ ~crashed
    /\ result.cmd \in {"sync", "continue"}
    /\ result.kind \notin {"Crashed", "NoSyncInProgress", "SyncAlreadyInProgress",
                         "DirtyWorkingDirectory"}
    /\ planned # <<>>
    /\ Range(planned) \subseteq rebasedOk

\* C9: when a plain sync or a continuation returns and the rebase of every
\* planned branch has succeeded, no sync.json is left, the result is Complete
\* with the id of the run's Backup and branches_rebased equal to the number
\* of planned branches; and no step of a sync or of a continuation removes a
\* Backup, so the run's Backup is still there.
C9_Completion ==
    [][/\ (run.cmd \in {"sync", "continue"}) => (backups \subseteq backups')
       /\ AllRebased'
            => /\ syncState' = NoSync
               /\ result'.kind = "Complete"
               /\ result'.backup_id = nextBackup' - 1
               /\ result'.branches_rebased = Len(planned')]_vars

C9_Witness ==
    /\ AllRebased
    /\ Returned("continue", "Complete")
    /\ Len(planned) >= 2
    /\ result.branches_rebased = Len(planned)
    /\ HasBackup(backups, result.backup_id)
    /\ syncState = NoSync

\* C10: from the computation of the plan to the end of the rebases of a plain
\* sync, stack.json holds no branch whose PR the run detected as Merged and
\* no branch whose parent is such a branch.
C10_ReconcileBeforeRebase ==
    (run.cmd = "sync" /\ pc \in {"plan", "exec_backup", "exec_save", "exec_checkout",
                                 "exec_rebase", "exec_saveadv", "exec_savepause",
                                 "exec_clear", "exec_restore"})
        => \A i \in 1..Len(stack) :
              stack[i].name \notin detected /\ stack[i].parent \notin detected

C10_Witness ==
    /\ pc = "exec_rebase"
    /\ detected # {}
    /\ run.reparented # <<>>
    /\ \E i \in 1..Len(stack) : stack[i].name = run.plan[run.idx].branch
                                 /\ stack[i].name = run.reparented[1].name

\* ---------------------------------------------------------------- C11
\* The parent a branch has once the branches of M left the stack s: the
\* nearest ancestor that is not in M
RECURSIVE Resolve(_, _, _, _)
Resolve(s, M, parent, k) ==
    IF parent \notin M \/ ~HasBranch(s, parent) \/ k = 0 THEN parent
    ELSE Resolve(s, M, ParentName(find_branch(s, parent), Mainline), k - 1)

\* The stack s after the reconciliation of the merged branches M
Reconciled(s, M) ==
    LET keep == SelectSeq(s, LAMBDA b : b.name \notin M)
    IN  [i \in 1..Len(keep) |->
            [keep[i] EXCEPT !.parent = Resolve(s, M, @, Len(s))]]

\* A step of the merge command that merged the pull request of the
\* checked-out branch
MergeStep ==
    /\ head \in Names
    /\ \E n \in 0..MaxStack, how \in {"done", "error", "conflict"} : Merge(n, how)
    /\ forge'[head] # forge[head]

\* C11: after the reconciliation of a set of merged branches, by Phase 1 of
\* a sync or by step 6 of the merge command, no merged branch is in the
\* stack, every child of a merged branch has that branch's former parent, no
\* entry names a merged branch as its parent, and the other entries keep
\* their name, their pr and their relative order.
C11_ReconciliationRule ==
    [][ /\ (pc = "detect" /\ pc' = "stale") =>
             /\ stack' = Reconciled(stack, detected')
             /\ \A i \in 1..Len(stack') :
                    stack'[i].name \notin detected' /\ stack'[i].parent \notin detected'
        /\ MergeStep =>
             /\ stack' = Reconciled(stack, {head})
             /\ \A i \in 1..Len(stack') :
                    stack'[i].name # head /\ stack'[i].parent # head
      ]_vars

\* A sync has just reconciled a merged branch whose child it re-parented, in
\* a repository where the merge command merged and deleted another branch
C11_Witness ==
    /\ pc = "stale" /\ run.cmd = "sync"
    /\ detected # {} /\ run.reparented # <<>>
    /\ \E i \in 1..Len(stack) :
          /\ stack[i].name = run.reparented[1].name
          /\ stack[i].parent = run.reparented[1].new_parent
          /\ stack[i].pr # 0
    /\ \E b \in Names \ detected :
          forge[b] = "merged" /\ ~branch_exists(refs, b) /\ ~HasBranch(stack, b)

\* ---------------------------------------------------------------- C12
\* A sync, or its continuation, has reached Done
SyncDone ==
    /\ pc = "idle"
    /\ result.cmd \in {"sync", "continue"}
    /\ result.kind \in {"Complete", "AlreadySynced"}

\* C12: when a sync reaches Done (directly, with nothing to rebase, or
\* after a pause through --continue), update_pr(pr, base = new_parent) has been
\* called for every branch with a PR that Phase 1 re-parented (and left in
\* the stack).
C12_PrBasesUpdated ==
    SyncDone => \A i \in 1..Len(stack) : <<stack[i].name, stack[i].parent>> \notin pendingBases

\* ---------------------------------------------------------------- C13
\* Every entry whose parent is in the stack comes after an entry of its parent
Topological(s) ==
    \A i \in 1..Len(s) :
        s[i].parent \in StackNames(s) => \E j \in 1..(i - 1) : s[j].name = s[i].parent

\* No branch is its own ancestor
Acyclic(s) ==
    \A n \in StackNames(s) : n \notin Below(s, Range(ChildrenOf(s, n)), Len(s))

\* C13: starting from the empty stack, after every mutating operation
\* (create, sync reconciliation, stale cleanup, merge cleanup) the stack
\* order is topological and the parent relation has no cycle.
C13_Topology == Topological(stack) /\ Acyclic(stack)

\* ---------------------------------------------------------------- C14
\* C14: every entry of the stack with a non-null parent names a branch of
\* the stack or the mainline as its parent; in particular create never
\* appends an entry whose parent is neither.
C14_ParentValid ==
    \A i \in 1..Len(stack) :
        stack[i].parent # "" => stack[i].parent \in StackNames(stack) \cup {Mainline}

\* ---------------------------------------------------------------- C15
\* C15: a sync with --dry-run mutates nothing: no step of it changes
\* stack.json, the SyncState, the Backups or any branch tip, also when merged
\* PRs or missing local branches are present.
C15_DryRunNoMutation ==
    [][ (run.cmd = "sync" /\ run.dryRun) =>
            UNCHANGED <<stack, syncState, backups, nextBackup, refs>> ]_vars

\* ---------------------------------------------------------------- C16
\* Every branch of the stack and its parent exist, and the branch's merge
\* base with its parent is the parent's tip
AllSynced(s, r) ==
    \A i \in 1..Len(s) :
        LET parent == IF s[i].parent = "" THEN Mainline ELSE s[i].parent
        IN  /\ branch_exists(r, s[i].name) /\ branch_exists(r, parent)
            /\ IsAncestor(r[parent], r[s[i].name])

\* No PR of a stack branch is merged
NoMergedPr(s) == \A i \in 1..Len(s) : s[i].pr # 0 => forge[s[i].name] # "merged"

SyncIssued == \E d \in BOOLEAN, clean \in BOOLEAN : SyncBegin(d, clean)
SyncIssuedClean == \E d \in BOOLEAN : SyncBegin(d, TRUE)
SyncIssuedDirty == \E d \in BOOLEAN : SyncBegin(d, FALSE)

\* C17: a plain sync proceeds only if no SyncState exists, the working
\* copy is clean and the VCS is not in the middle of a rebase; otherwise it
\* returns an error and changes nothing. (The store is initialised from the
\* initial state on.)
C17_SyncPreconditions ==
    [][ /\ (pc = "idle" /\ pc' = "fetch") =>
             /\ syncState = NoSync
             /\ rebasing = NoRebase
             /\ SyncIssuedClean
        /\ (SyncIssued /\ (syncState # NoSync \/ rebasing # NoRebase \/ SyncIssuedDirty)) =>
             /\ pc' = "idle"
             /\ result'.kind \in {"SyncAlreadyInProgress", "DirtyWorkingDirectory",
                                    "RebaseInProgress"}
             /\ UNCHANGED <<persistent, vcs>>
      ]_vars

\* ---- C18
\* The operator runs create, submit or merge
WriterIssued ==
    \/ \E n \in Names : Create(<<n>>, "clean") \/ Recreate(n)
    \/ \E k \in 0..MaxStack : Submit(k)
    \/ \E n \in 0..MaxStack, how \in {"done", "error", "conflict"} : Merge(n, how)

\* C18: while a SyncState exists, create, submit and merge change neither
\* stack.json nor a branch tip, and every branch --continue comes to process
\* is still in the stack
C18_SingleWriter ==
    [][ /\ (syncState # NoSync /\ WriterIssued) => UNCHANGED <<stack, refs>>
        /\ (pc' = "cont_checkout" /\ pc # "cont_checkout") => HasBranch(stack', Head(run'.loop))
      ]_vars

\* ---- C19
\* C19: undo invoked while a SyncState exists is refused and changes nothing;
\* the Backup a SyncState names exists as long as the SyncState does, and
\* --abort loads it
C19_UndoNeedsNoSync ==
    [][ /\ (Undo /\ syncState # NoSync) =>
              /\ result'.kind = "SyncInProgress"
              /\ UNCHANGED <<persistent, vcs>>
        /\ syncState' # NoSync => HasBackup(backups', syncState'.backup_id)
        /\ (Abort /\ syncState # NoSync) =>
              /\ result'.kind = "Aborted"
              /\ syncState' = NoSync
      ]_vars

\* An undo was refused during a paused sync whose Backup is on disk
C19_Witness ==
    /\ Returned("undo", "SyncInProgress")
    /\ syncState # NoSync
    /\ rebasing # NoRebase
    /\ HasBackup(backups, syncState.backup_id)

\* ---- C20
\* C20: undo with no Backup in the state store fails with an error and changes
\* no branch tip, no stack entry and no state file
C20_UndoNoBackup ==
    [][ (Undo /\ backups = {}) =>
            /\ result'.kind = "NoBackup"
            /\ UNCHANGED <<persistent, vcs>>
      ]_vars

\* An undo failed for want of a Backup after the last one had been consumed
C20_Witness ==
    /\ Returned("undo", "NoBackup")
    /\ backups = {}
    /\ nextBackup > 1
    /\ stack # <<>>

\* ---- C21
\* A step of the merge command in which merge_pr succeeded on the checked-out
\* branch
CleanupStep ==
    /\ head # Detached /\ head \in Names
    /\ forge[head] = "open" /\ forge'[head] = "merged"
    /\ cleanup'.branch = head /\ cleanup.branch # head

\* C21: once merge_pr has succeeded, stack.json no longer holds the merged
\* branch, each of its direct children has the merged branch's parent as
\* parent and every other entry is as it was, whatever the rest of the run
\* does (a failed fetch, update_pr, rebase or push included)
C21_MergePersistsFirst ==
    [][ CleanupStep =>
          LET cur == head
              p == ParentName(find_branch(stack, cur), Mainline)
          IN  /\ ~HasBranch(stack', cur)
              /\ Len(stack') = Len(stack) - 1
              /\ \A i \in 1..Len(stack) :
                    stack[i].name # cur =>
                      \E j \in 1..Len(stack') :
                        /\ stack'[j].name = stack[i].name
                        /\ stack'[j].pr = stack[i].pr
                        /\ stack'[j].parent = IF stack[i].parent = cur THEN p
                                               ELSE stack[i].parent
      ]_vars

\* A merge cleanup stopped on a conflict in a child of the merged branch: the
\* branch is merged on the forge, still has its local ref, and has left the
\* stack, in which the child no longer names it
C21_Witness ==
    /\ pc = "idle" /\ syncState = NoSync
    /\ rebasing # NoRebase
    /\ HasBranch(stack, rebasing.branch)
    /\ \E b \in Names :
          /\ forge[b] = "merged"
          /\ branch_exists(refs, b)
          /\ ~HasBranch(stack, b)
          /\ \A i \in 1..Len(stack) : stack[i].parent # b

\* ---- C22
\* The update_pr calls a complete merge cleanup of cur makes
AllBases(s, cur, D) ==
    {<<D[i], NewBaseName(s, cur, D[i])>> : i \in {j \in 1..Len(D) : find_branch(s, D[j]).pr # 0}}

\* C22: in a merge cleanup, delete_ref on the forge is issued only when
\* update_pr was called for every descendant that has a PR and every
\* descendant is rebased onto its new base and pushed; the local branch is
\* deleted only when stack.json no longer holds it; and when an update_pr, a
\* rebase or a push of the loop failed, neither deletion happens
C22_CleanupOrdering ==
    [][ CleanupStep =>
          LET cur == head
              D == collect_descendants(stack, <<cur>>)
              complete == /\ cleanup'.updated = AllBases(stack, cur, D)
                          /\ cleanup'.pushed = Range(D)
                          /\ rebasing' = NoRebase
                          /\ \A i \in 1..Len(D) :
                                IsAncestor(refs'[NewBaseName(stack, cur, D[i])], refs'[D[i]])
          IN  /\ cleanup'.remoteDeleted => complete
              /\ ~branch_exists(refs', cur) => (complete /\ ~HasBranch(stack', cur))
              /\ ~complete => (~cleanup'.remoteDeleted /\ refs'[cur] = refs[cur])
      ]_vars

\* A merge cleanup with a descendant that has a PR ran to its end: the PR was
\* re-based, the descendant pushed, and both the remote and the local branch
\* of the merged branch are deleted
C22_Witness ==
    /\ cleanup.remoteDeleted
    /\ cleanup.updated # {}
    /\ cleanup.pushed # {}
    /\ ~branch_exists(refs, cleanup.branch)
    /\ ~HasBranch(stack, cleanup.branch)
    /\ \E x \in cleanup.pushed : HasBranch(stack, x) /\ branch_exists(refs, x)

\* ---- C23
\* The tip the transplant of descendant x yields when its old base is the tip
\* its stack parent had before the merge (old) and its new base is the landed
\* tip of the merged branch's parent for a direct child of cur, the
\* transplanted tip of its own parent otherwise
RECURSIVE Transplanted(_, _, _, _, _, _)
Transplanted(s, old, landed, cur, x, k) ==
    LET sp == ParentName(find_branch(s, x), Mainline)
        onto == IF sp = cur \/ k = 0 THEN landed
                ELSE Transplanted(s, old, landed, cur, sp, k - 1)
    IN  rebase_onto_from(old[x], onto, old[sp])

\* C23: the merge cleanup lists every descendant of the merged branch once,
\* parents before children, and each descendant it has rebased has the tip
\* of the transplant from its parent's pre-merge tip onto the landed tip of
\* the merged branch's parent (direct child) or onto its parent's transplanted
\* tip (deeper descendant); the others keep their tip
C23_Transplant ==
    [][ CleanupStep =>
          LET cur == head
              p == ParentName(find_branch(stack, cur), Mainline)
              D == collect_descendants(stack, <<cur>>)
              tip(x) == Transplanted(stack, refs, refs'[p], cur, x, Len(stack))
          IN  /\ Cardinality(Range(D)) = Len(D)
              /\ Range(D) = Below(stack, {cur}, Len(stack)) \ {cur}
              /\ \A i \in 1..Len(D) :
                    LET sp == find_branch(stack, D[i]).parent
                    IN  sp = cur \/ \E j \in 1..(i - 1) : D[j] = sp
              /\ \A i \in 1..Len(D) :
                    /\ D[i] \in cleanup'.pushed => refs'[D[i]] = tip(D[i])
                    /\ refs'[D[i]] \in {refs[D[i]], tip(D[i])}
              /\ \A b \in Names \ (Range(D) \cup {cur, p}) : refs'[b] = refs[b]
      ]_vars

\* A merge cleanup rebased and pushed a child and a grandchild of the merged
\* branch, each with commits of its own, the grandchild on the child's tip
C23_Witness ==
    /\ cleanup.branch # ""
    /\ \E x \in cleanup.pushed, y \in cleanup.pushed :
          /\ HasBranch(stack, x) /\ HasBranch(stack, y)
          /\ find_branch(stack, y).parent = x
          /\ find_branch(stack, x).parent # cleanup.branch
          /\ IsAncestor(refs[x], refs[y])
          /\ Len(refs[y]) > Len(refs[x])
          /\ Len(refs[x]) > Len(RootCommit) + 1

\* ---- C24
\* The operator runs the merge command
MergeIssued == \E n \in 0..MaxStack, how \in {"done", "error", "conflict"} : Merge(n, how)

\* C24: a merge command run with a detached HEAD, on a branch that is not in
\* the stack or has no PR, or whose merge_pr fails, changes neither
\* stack.json, a branch tip, the checked-out branch, the remote, a pull
\* request nor the state store
C24_MergeRefusedNoChange ==
    [][ \/ UNCHANGED <<persistent, vcs, forge, cleanup, aside>>
        \/ ~(\/ head = Detached
             \/ ~HasBranch(stack, head)
             \/ find_branch(stack, head).pr = 0
             \/ forge[head] # "open")
        \/ ~MergeIssued
      ]_vars

\* The merge command was run on a stack branch with a PR that the forge had
\* already merged: merge_pr failed, the branch is still in the stack with its
\* child and its local tip
C24_Witness ==
    /\ pc = "idle" /\ result = NoResult
    /\ head \in Names /\ HasBranch(stack, head)
    /\ find_branch(stack, head).pr # 0
    /\ forge[head] = "merged"
    /\ cleanup.branch # head
    /\ branch_exists(refs, head)
    /\ \E i \in 1..Len(stack) : stack[i].parent = head

\* C25 (atomic state): when the process stopped at any point of a save of
\* stack.json, or the save finished, a later load returns the whole previous
\* stack or the whole new one, never an error from a cut or empty file
C25_AtomicSave ==
    disk.loaded.kind # "None" =>
        /\ disk.loaded.kind = "Ok"
        /\ disk.loaded.stack \in {disk.prev, disk.next}

\* A load after the process stopped with the new content half written: the
\* previous stack is read
C25_Witness ==
    /\ disk.crashed
    /\ disk.written > 0
    /\ disk.written < Len(Serialize(disk.next))
    /\ disk.prev # disk.next
    /\ disk.prev # <<>>
    /\ disk.loaded = [kind |-> "Ok", stack |-> disk.prev]

\* A two-character pattern occurs in the name
Contains(name, a, b) == \E i \in 1..(Len(name) - 1) : name[i] = a /\ name[i + 1] = b

\* The names C30 lets through
WellFormedName(name) ==
    /\ name # <<>>
    /\ name # <<"@">>
    /\ name[1] # "." /\ name[Len(name)] # "."
    /\ ~(Len(name) >= 5 /\ \A j \in 1..5 :
            name[Len(name) - 5 + j] = <<".", "l", "o", "c", "k">>[j])
    /\ name[1] # "/" /\ name[Len(name)] # "/"
    /\ ~Contains(name, ".", ".") /\ ~Contains(name, "/", "/")
    /\ ~Contains(name, "@", "{") /\ ~Contains(name, "/", ".")
    /\ \A i \in 1..Len(name) : name[i] \notin ControlChars \cup GitForbidden \cup ShellMeta

\* C30 (BranchName validation): BranchName::new succeeds, with the name as
\* its value, exactly on the names that are non-empty, not "@", neither start
\* nor end with '.' or '/', do not end with ".lock", contain none of "..",
\* "//", "@{", "/.", no control character, none of space ~ ^ : ? * [ and no
\* shell metacharacter; on every other name it returns InvalidBranchName and
\* no value
C30_Validation ==
    call.fn = "BranchName::new" =>
        /\ call.ret.ok <=> WellFormedName(call.arg)
        /\ call.ret.ok => call.ret.value = call.arg /\ call.ret.reason = ""
        /\ ~call.ret.ok => call.ret.value = <<>> /\ call.ret.reason # ""

\* "a.lock" has been refused for its ending alone
C30_Witness ==
    /\ call.fn = "BranchName::new"
    /\ call.arg = <<"a", ".", "l", "o", "c", "k">>
    /\ ~call.ret.ok
    /\ call.ret.reason = ".lock"

\* C26 (create with an invalid name): create on a name that validation
\* rejects returns InvalidBranchName and changes no branch, not stack.json
\* and not the checked-out branch
C26_InvalidNameNoChange ==
    [][ \A typed \in Typed, wc \in WorkingCopies :
            (WellFormedName(typed) \/ ~Create(typed, wc)) \/
            (/\ result'.cmd = "create" /\ result'.kind = "InvalidBranchName"
             /\ UNCHANGED <<persistent, vcs, forge, cleanup, created, aside>>) ]_vars

\* "../B" has been refused on a stack that holds A, with A checked out
C26_Witness ==
    /\ result.cmd = "create" /\ result.kind = "InvalidBranchName"
    /\ Len(stack) = 1
    /\ head = "A"
    /\ ~branch_exists(refs, "B")

\* C27 (create success): a create that succeeds appends one entry {name,
\* parent = the branch checked out at the call, no PR} at the end of the
\* stack and leaves the entries before it as they were; the new branch starts
\* at the checked-out commit (with --message the pending changes are
\* committed on top of it), no other branch moves, and the new branch is
\* checked out
C27_CreateAppends ==
    [][ \A typed \in Typed, wc \in WorkingCopies :
            (~WellFormedName(typed) \/ head = Detached \/ ~Create(typed, wc)
             \/ branch_exists(refs, NameOf(typed))) \/
            (/\ Len(stack') = Len(stack) + 1
             /\ SubSeq(stack', 1, Len(stack)) = stack
             /\ stack'[Len(stack')] = [name |-> NameOf(typed), parent |-> head, pr |-> 0]
             /\ IsAncestor(refs[head], refs'[NameOf(typed)])
             /\ Len(refs'[NameOf(typed)]) <= Len(refs[head]) + 1
             /\ (wc # "dirty, --message" => refs'[NameOf(typed)] = refs[head])
             /\ \A b \in AllBranches \ {NameOf(typed)} : refs'[b] = refs[b]
             /\ head' = NameOf(typed)) ]_vars

\* B was created on A after A got a commit: the stack is A, B with B's parent
\* A, both at A's commit, B checked out
C27_Witness ==
    /\ stack = <<[name |-> "A", parent |-> Mainline, pr |-> 0],
                 [name |-> "B", parent |-> "A", pr |-> 0]>>
    /\ refs["A"] = <<"m0", "A">>
    /\ refs["B"] = refs["A"]
    /\ head = "B"

\* C28 (create precondition): create on a working copy that is not clean
\* fails with DirtyWorkingDirectory, creates no branch and no stack entry
C28_CreateNeedsClean ==
    [][ \A typed \in Typed :
            ~Create(typed, "dirty") \/
            (/\ result'.kind \in {"DirtyWorkingDirectory", "InvalidBranchName"}
             /\ stack' = stack /\ refs' = refs) ]_vars

\* A command other than init and doctor is run, on the typed name for create
OtherCommand ==
    \/ Status \/ Log \/ Nxt \/ Prv
    \/ \E b \in Names : Move(b)
    \/ \E dryRun, clean \in BOOLEAN : SyncBegin(dryRun, clean)
    \/ ContinueBegin \/ Abort
    \/ \E k \in 0..Len(stack) : Submit(k)
    \/ MergeIssued

NothingChanged == UNCHANGED <<persistent, vcs, forge, cleanup, created, aside>>

C31_ValidatedDeserialize ==
    /\ call.fn = "deserialize" => (call.ret.ok <=> BranchName_new(call.arg).ok)
    /\ call.fn = "round trip" => (call.ret.ok /\ call.ret.value = call.arg)
    /\ call.fn = "load_stack" =>
        /\ disk.loaded.kind = "Ok" <=> BranchName_new(call.arg).ok
        /\ \A i \in 1..Len(disk.loaded.stack) : WellFormedName(disk.loaded.stack[i].name)

\* "a/a" has come back from its own serialization
C31_Witness ==
    call.fn = "round trip" /\ call.arg = <<"a", "/", "a">> /\ call.ret.value = call.arg

\* C32: slugify is idempotent: whenever the slug of a text is not empty,
\* slugify of the slug is the slug itself (and the slug is a valid
\* BranchName), also when the first application truncated the slug to
\* MAX_BRANCH_NAME_LENGTH.
C32_SlugifyIdempotent ==
    (call.fn = "slugify(slugify)" /\ call.arg # <<>>) =>
        /\ call.ret.value = call.arg
        /\ BranchName_new(call.arg).ok

\* A slug cut at its last hyphen within the limit has been slugified again
C32_Witness ==
    /\ call.fn = "slugify(slugify)"
    /\ call.ret.reason = "truncated"
    /\ call.arg = <<"a", "l">>
    /\ call.ret.value = call.arg

\* C33: whatever submit runs have happened, every pull request has at most
\* one comment with the stack marker: a run adds such a comment to a pull
\* request only when the pull request has none, and otherwise leaves their
\* number as it is (it updates the first one).
C33_SingleStackComment ==
    [][\A b \in Names :
          /\ comments'[b] <= 1
          /\ comments'[b] # comments[b] => comments[b] = 0]_vars

\* Three pull requests and three stack comments, after submit runs on the
\* growing stack
C33_Witness ==
    /\ Len(stack) = 3
    /\ \A i \in 1..3 : stack[i].pr # 0 /\ comments[stack[i].name] = 1

\* C34: create_sync_plan changes nothing; it fails with BranchNotFound when
\* a branch without parent is planned and the base branch has no local ref;
\* otherwise, when it succeeds, the plan lists, in stack order, exactly the
\* branches whose parent's tip (the base's tip for a branch without parent)
\* is not their merge base with that parent, each with that tip as new_base;
\* so the plan is empty when every branch sits on its parent's tip.
C34_PlanMembership ==
    [][call'.fn = "create_sync_plan" =>
        LET s == call.arg.stack
            r == call.arg.refs
            tip(i) == r[IF s[i].parent = "" THEN Mainline ELSE s[i].parent]
            onTip(i) == /\ Len(tip(i)) <= Len(r[s[i].name])
                        /\ SubSeq(r[s[i].name], 1, Len(tip(i))) = tip(i)
            due == SelectSeq([i \in 1..Len(s) |-> i], LAMBDA i : ~onTip(i))
            plan == call'.ret.value
        IN  /\ UNCHANGED <<program, comments, initialized, disk>>
            /\ call'.arg = call.arg
            /\ (\E i \in 1..Len(s) : s[i].parent = "" /\ r[Mainline] = NoCommit)
                    => (~call'.ret.ok /\ call'.ret.reason = "BranchNotFound")
            /\ call'.ret.ok =>
                /\ Len(plan) = Len(due)
                /\ \A k \in 1..Len(due) :
                      /\ plan[k].branch = s[due[k]].name
                      /\ plan[k].new_base = tip(due[k])]_vars

\* B, on A's old tip, is not planned while A, behind the mainline, is
C34_Witness ==
    /\ call.fn = "create_sync_plan"
    /\ call.arg.stack = <<Entry("A", Mainline, 0), Entry("B", "A", 0)>>
    /\ call.arg.refs["B"] = <<"m0", "A", "B">>
    /\ call.ret.ok
    /\ PlanNames(call.ret.value) = <<"A">>
    /\ call.ret.value[1].new_base = <<"m0", "m1">>

\* C35: when a step of the per-branch loop of a sync or of its continuation
\* (the checkout, the lookup of the branch, the rebase) fails with an error
\* that is not a conflict, the command returns with no SyncState on disk
\* and with the Backup of the run still there.
C35_FailureClearsSyncState ==
    [][(/\ pc \in {"exec_checkout", "exec_rebase", "cont_checkout", "cont_rebase"}
        /\ pc' = "idle"
        /\ result'.kind \in {"CheckoutFailed", "RebaseFailed", "NotInStack"})
          => (syncState' = NoSync /\ HasBackup(backups', run.backupId))]_vars

\* C36: once rebase_continue has succeeded, a continuation rebases every
\* planned branch that was still to do, in plan order, each onto the tip its
\* parent in the stack has when the branch is processed: every rebase of the
\* loop lands on the parent's current tip, and when the continuation of an
\* uninterrupted sync is about to return Complete, every planned branch has
\* been rebased.
C36_ContinueLiveParents ==
    [][/\ (pc = "cont_rebase" /\ pc' = "cont_saveadv") =>
            LET b == Head(run.loop)
            IN  refs'[b] = Rebased(refs[b], refs[ParentName(find_branch(stack, b), Mainline)])
       /\ (pc = "cont_clear" /\ ~crashed /\ lateOps = 0) =>
            Range(planned) \subseteq rebasedOk]_vars

\* C37: a sync or a continuation that returns Paused has pushed no branch
\* and issued no update_pr; a push happens only in the last phase of a run
\* whose rebase phase ended in Complete or AlreadySynced; and a run with
\* no_push pushes nothing.
C37_NoPushWhilePaused ==
    [][/\ (pc # "idle" /\ pc' = "idle" /\ result'.kind = "Paused") =>
            /\ result'.pushed = {}
            /\ ~run.prUpdated
            /\ pendingBases' = pendingBases
       /\ (result' # result /\ result'.pushed # {}) =>
            /\ pc = "push"
            /\ run.res.kind \in {"Complete", "AlreadySynced"}
       /\ result'.no_push => result'.pushed = {}]_vars

\* A sync has paused with the base of a pull request still to be updated
C37_Witness ==
    /\ pc = "idle"
    /\ result.kind = "Paused"
    /\ pendingBases # {}
    /\ result.pushed = {}

\* C38: whatever creates, syncs, merge cleanups and deletions of local
\* branches have happened, no two entries of the stack have the same name.
C38_UniqueNames ==
    \A i, j \in 1..Len(stack) : stack[i].name = stack[j].name => i = j

C40_RebasePhaseFrame ==
    [][/\ (\/ pc \in {"exec_backup", "exec_save", "exec_checkout", "exec_rebase",
                       "exec_saveadv", "exec_savepause", "exec_clear", "exec_restore",
                       "cont_continue", "cont_save", "cont_checkout", "cont_rebase",
                       "cont_saveadv", "cont_savepause", "cont_clear"}
           \/ Abort
           \/ Undo) => stack' = stack
       /\ (Abort /\ result'.kind = "Aborted") =>
            \A b \in Range(planned) : refs'[b] = preTips[b]]_vars

\* A sync that removed a stale branch from the stack has been aborted: the
\* branch is still gone from the stack and the planned tips are back
C40_Witness ==
    /\ pc = "idle"
    /\ result = Outcome("abort", "Aborted")
    /\ stack # <<>>
    /\ \E n \in Names : PrNumber(n) <= created /\ ~HasBranch(stack, n) /\ ~branch_exists(refs, n)
    /\ \A b \in Range(planned) : refs[b] = preTips[b]

====
